---- MODULE Spec2Model ----
(***************************************************************************)
(* PipeWeave orchestrator core: task queue, poller (dispatcher), retry     *)
(* manager, dead-letter queue, heartbeat monitor, service registry,        *)
(* pipeline executor and the maintenance state machine.                    *)
(*                                                                         *)
(* Every database statement and every outgoing call the TypeScript code    *)
(* awaits is one atomic step of the model; the continuation of an async    *)
(* function between two awaits is folded into the step that precedes it.   *)
(***************************************************************************)
EXTENDS Integers, Sequences, FiniteSets, TLC

(***************************************************************************)
(* Bounds of the model                                                     *)
(***************************************************************************)
MaxRuns == 5            \* rows of task_runs
MaxTime == 2            \* the clock NOW() runs over 0..MaxTime
MaxDlq == 1             \* rows of dlq
MaxConcurrency == 2     \* TaskPoller.maxConcurrency of the standalone queue: runs claimed per tick
MaxPipelineRuns == 1    \* rows of pipeline_runs
MaxStandalone == 2      \* task runs enqueued outside a pipeline
MaxDrainRuns == 3       \* task runs enqueued in the maintenance drain
MaxAttempt == 3         \* attempt numbers a dispatched job may carry
MaxCodeVersion == 3     \* code versions a task goes through

NULL == "NULL"
NoTime == -1            \* scheduled_for IS NULL

TaskIds == {"A", "B", "C", "D"}

Statuses == {"pending", "running", "waiting", "completed", "failed", "timeout", "cancelled"}
Modes == {"running", "waiting_for_maintenance", "maintenance"}

Pollers == {1, 2}       \* poll() invocations that may be in progress together
AllRunIds == 1..MaxRuns
JobIds == [run : AllRunIds, attempt : 1..MaxAttempt]

VARIABLES
  tasks,         \* table tasks: task id -> row (registered = FALSE: no row)
  taskRuns,      \* table task_runs: sequence of rows, in created_at order
  dlq,           \* table dlq: sequence of rows
  mode,          \* table maintenance_state: the singleton row's mode
  now,           \* the database clock
  ticks,         \* poll() invocations, by poller
  workerJobs,    \* dispatches accepted by the worker transport, not yet answered
  callbacks,     \* callback handlers in progress, by task run
  trackers,      \* HeartbeatMonitor.trackers: run id -> tracker and its timer handle
  orphanTimers,  \* armed setTimeout handles no tracker refers to any more
  timeoutCalls,  \* handleTimeout calls awaiting their UPDATE
  pipelines,     \* table pipelines: pipeline id -> row
  pipelineRuns,  \* table pipeline_runs: sequence of rows
  services,      \* table services: service id -> row
  codeHistory,   \* table task_code_history: sequence of rows
  triggers,      \* POST /api/pipelines/:id/trigger requests in progress
  idempotencyCache, \* table idempotency_cache: set of rows
  enqueueCall,   \* QueueManager.enqueue call with an idempotency key, in progress
  lastCall       \* the arguments and the return value of the last direct call

dbVars == <<tasks, taskRuns, dlq, mode>>
hbVars == <<trackers, orphanTimers, timeoutCalls>>
plVars == <<pipelines, pipelineRuns, services, codeHistory, triggers>>
idVars == <<idempotencyCache, enqueueCall, lastCall>>
vars == <<tasks, taskRuns, dlq, mode, now, ticks, workerJobs, callbacks,
          trackers, orphanTimers, timeoutCalls, pipelines, pipelineRuns, services,
          codeHistory, triggers, idempotencyCache, enqueueCall, lastCall>>

RunIds == DOMAIN taskRuns

(***************************************************************************)
(* Helpers                                                                 *)
(***************************************************************************)
Min(a, b) == IF a <= b THEN a ELSE b

RECURSIVE Pow2(_)
Pow2(n) == IF n <= 0 THEN 1 ELSE 2 * Pow2(n - 1)

CountRuns(P(_)) == Cardinality({r \in RunIds : P(taskRuns[r])})

RunningCount(t) == CountRuns(LAMBDA row : row.taskId = t /\ row.status = "running")

SetRun(r, row) == [taskRuns EXCEPT ![r] = row]

(***************************************************************************)
(* Rows                                                                    *)
(***************************************************************************)
NoTask ==
  [registered |-> FALSE, serviceId |-> NULL, allowedNext |-> <<>>, concurrency |-> 0,
   retries |-> 0, priority |-> 1, retryBackoff |-> "fixed", retryDelayMs |-> 1,
   maxRetryDelayMs |-> 1, heartbeatIntervalMs |-> 1, codeHash |-> <<>>, codeVersion |-> 0]

\* INSERT INTO task_runs ... 'pending', attempt 1, previous_attempts '[]'
NewTaskRun(t, prun, priority, refs, scheduledFor) ==
  [taskId |-> t, prun |-> prun, status |-> "pending", attempt |-> 1,
   maxRetries |-> tasks[t].retries,
   priority |-> IF priority = 0 THEN tasks[t].priority ELSE priority,
   scheduledFor |-> scheduledFor, error |-> NULL, errorCode |-> NULL,
   previousAttempts |-> <<>>, upstreamRefs |-> refs, outputPath |-> 0,
   completedAt |-> NoTime, idempotencyKey |-> NULL]

(***************************************************************************)
(* Maintenance state machine (orchestrator/src/maintenance.ts)             *)
(***************************************************************************)
ActiveCount(runs) ==
  Cardinality({r \in DOMAIN runs : runs[r].status \in {"pending", "running"}})

\* Orchestrator.canAcceptTasks
CanAcceptTasks == mode = "running"

\* onTaskStatusChange: the hook markCompleted and markFailed await; the counts are
\* those requestMaintenance and enterMaintenance test (pending and running)
OnTaskStatusChange(m, runs) ==
  IF m = "waiting_for_maintenance" /\ ActiveCount(runs) = 0 THEN "maintenance" ELSE m

RequestMaintenance ==
  /\ mode = "running"
  /\ mode' = IF ActiveCount(taskRuns) = 0 THEN "maintenance" ELSE "waiting_for_maintenance"
  /\ UNCHANGED <<tasks, taskRuns, dlq, now, ticks, workerJobs, callbacks, hbVars, plVars, idVars>>

EnterMaintenance ==
  /\ mode # "maintenance"
  /\ ActiveCount(taskRuns) = 0
  /\ mode' = "maintenance"
  /\ UNCHANGED <<tasks, taskRuns, dlq, now, ticks, workerJobs, callbacks, hbVars, plVars, idVars>>

ExitMaintenance ==
  /\ mode \in {"maintenance", "waiting_for_maintenance"}
  /\ mode' = "running"
  /\ UNCHANGED <<tasks, taskRuns, dlq, now, ticks, workerJobs, callbacks, hbVars, plVars, idVars>>

(***************************************************************************)
(* QueueManager                                                            *)
(***************************************************************************)
\* enqueue of a standalone run (no idempotency key)
Enqueue(t, priority) ==
  /\ tasks[t].registered
  /\ Len(taskRuns) < MaxRuns
  /\ taskRuns' = Append(taskRuns, NewTaskRun(t, 0, priority, {}, NoTime))
  /\ UNCHANGED <<tasks, dlq, mode, now, ticks, workerJobs, callbacks, hbVars, plVars, idVars>>

\* the WHERE clause of getNext without the condition on scheduled_for
EligibleAnyTime(row) ==
  /\ row.status = "pending"
  /\ (tasks[row.taskId].concurrency = 0
        \/ RunningCount(row.taskId) < tasks[row.taskId].concurrency)

\* the WHERE clause of getNext
Eligible(row) ==
  /\ row.status = "pending"
  /\ (row.scheduledFor = NoTime \/ row.scheduledFor <= now)
  /\ (tasks[row.taskId].concurrency = 0
        \/ RunningCount(row.taskId) < tasks[row.taskId].concurrency)

\* ORDER BY priority ASC, created_at ASC
Before(a, b) ==
  \/ taskRuns[a].priority < taskRuns[b].priority
  \/ taskRuns[a].priority = taskRuns[b].priority /\ a < b

RECURSIVE SortRuns(_)
SortRuns(S) ==
  IF S = {} THEN <<>>
  ELSE LET first == CHOOSE a \in S : \A b \in S \ {a} : Before(a, b)
       IN <<first>> \o SortRuns(S \ {first})

\* getNext(limit): the run ids, each with the row as it was read
GetNext(limit) ==
  LET sorted == SortRuns({r \in RunIds : Eligible(taskRuns[r])})
  IN SubSeq(sorted, 1, Min(limit, Len(sorted)))

\* markRunning: UPDATE ... SET status = 'running' WHERE id = $1
MarkRunning(row) == [row EXCEPT !.status = "running"]

\* markCompleted: UPDATE ... SET status = 'completed', output_path ... WHERE id = $1
MarkCompleted(row, out) ==
  [row EXCEPT !.status = "completed", !.outputPath = out, !.completedAt = now]

\* markFailed: UPDATE ... SET status = 'failed', error, error_code WHERE id = $1
MarkFailed(row, error, errorCode) ==
  [row EXCEPT !.status = "failed", !.error = error, !.errorCode = errorCode,
              !.completedAt = now]

(***************************************************************************)
(* IdempotencyManager and enqueue with an idempotency key                   *)
(***************************************************************************)
Keys == {"k1", "k2"}

\* no direct call has been made: the record of a call holds its number, its
\* name, its arguments, whether it returned true, and the values it returned
NoCall == [seq |-> 0, op |-> "none", args |-> <<>>, ok |-> FALSE, out |-> <<>>]

NoResult == [runId |-> 0, status |-> NULL, inputPath |-> 0]

IdleEnqueue == [pc |-> "idle", taskId |-> NULL, key |-> NULL, result |-> NoResult]

\* `standalone/${runId}/input.json`: input paths are negative, output paths positive
InputPath(runId) == 0 - runId

\* checkIdempotency returns null: no cached result
NoCached == [taskRunId |-> 0, outputPath |-> 0]

\* checkIdempotency without the expiry condition
CheckIdempotencyNoExpiry(key) ==
  LET rows == {e \in idempotencyCache : e.key = key}
  IN IF rows = {} THEN NoCached
     ELSE LET e == CHOOSE x \in rows : TRUE
          IN [taskRunId |-> e.taskRunId, outputPath |-> e.outputPath]

\* checkIdempotency: SELECT ... WHERE idempotency_key = $1 AND expires_at > NOW()
CheckIdempotency(key) ==
  LET live == {e \in idempotencyCache : e.key = key /\ e.expiresAt > now}
  IN IF live = {} THEN NoCached
     ELSE LET e == CHOOSE x \in live : TRUE
          IN [taskRunId |-> e.taskRunId, outputPath |-> e.outputPath]

\* cacheResult as a plain INSERT that keeps the row already stored for the key
CacheResultKeepOld(cache, key, taskId, taskRunId, codeVersion, outputPath, ttlSeconds) ==
  cache \cup {[key |-> key, taskId |-> taskId, taskRunId |-> taskRunId,
               codeVersion |-> codeVersion, outputPath |-> outputPath,
               expiresAt |-> now + ttlSeconds]}

\* cacheResult: INSERT ... ON CONFLICT (idempotency_key) DO UPDATE SET
\* task_run_id, output_path, output_size, assets, cached_at, expires_at; the
\* columns task_id and code_version of a row already stored are not in the SET list
CacheResult(cache, key, taskId, taskRunId, codeVersion, outputPath, ttlSeconds) ==
  LET stored == {e \in cache : e.key = key}
      row == [key |-> key, taskId |-> taskId, taskRunId |-> taskRunId,
              codeVersion |-> codeVersion, outputPath |-> outputPath,
              expiresAt |-> now + ttlSeconds]
  IN IF stored = {} THEN cache \cup {row}
     ELSE (cache \ stored)
            \cup {[row EXCEPT !.taskId = e.taskId, !.codeVersion = e.codeVersion] :
                    e \in stored}

\* cleanupExpired: DELETE FROM idempotency_cache WHERE expires_at < NOW()
CleanupExpired ==
  /\ \E e \in idempotencyCache : e.expiresAt < now
  /\ idempotencyCache' = {e \in idempotencyCache : ~(e.expiresAt < now)}
  /\ UNCHANGED <<dbVars, now, ticks, workerJobs, callbacks, hbVars, plVars, enqueueCall, lastCall>>

\* enqueue: load the task, checkIdempotency; a hit returns the cached run
EnqueueCheck(t, key) ==
  /\ enqueueCall.pc = "idle"
  /\ tasks[t].registered
  /\ LET cached == CheckIdempotency(key)
     IN enqueueCall' =
          IF cached # NoCached
          THEN [pc |-> "idle", taskId |-> t, key |-> key,
                result |-> [runId |-> cached.taskRunId, status |-> "completed",
                            inputPath |-> cached.outputPath]]
          ELSE [pc |-> "insert", taskId |-> t, key |-> key, result |-> NoResult]
  /\ UNCHANGED <<dbVars, now, ticks, workerJobs, callbacks, hbVars, plVars,
                  idempotencyCache, lastCall>>

\* enqueue, after a miss: INSERT INTO task_runs ... 'pending', idempotency_key
EnqueueInsert ==
  /\ enqueueCall.pc = "insert"
  /\ Len(taskRuns) < MaxRuns
  /\ taskRuns' = Append(taskRuns,
        [NewTaskRun(enqueueCall.taskId, 0, 0, {}, NoTime)
           EXCEPT !.idempotencyKey = enqueueCall.key])
  /\ enqueueCall' = [enqueueCall EXCEPT !.pc = "idle", !.result =
        [runId |-> Len(taskRuns) + 1, status |-> "pending",
         inputPath |-> InputPath(Len(taskRuns) + 1)]]
  /\ UNCHANGED <<tasks, dlq, mode, now, ticks, workerJobs, callbacks, hbVars, plVars,
                  idempotencyCache, lastCall>>

(***************************************************************************)
(* RetryManager                                                            *)
(***************************************************************************)
\* calculateDelay without the cap of the exponential delay
CalculateDelayUncapped(backoff, retryDelayMs, maxRetryDelayMs, attempt) ==
  IF backoff = "fixed" THEN retryDelayMs
  ELSE retryDelayMs * Pow2(attempt - 1)

\* calculateDelay
CalculateDelay(backoff, retryDelayMs, maxRetryDelayMs, attempt) ==
  IF backoff = "fixed" THEN retryDelayMs
  ELSE Min(retryDelayMs * Pow2(attempt - 1), maxRetryDelayMs)

\* scheduleRetry returns false without a write when attempt >= maxRetries
RetryAllowed(attempt, maxRetries) == ~(attempt >= maxRetries)

\* scheduleRetry with an UPDATE that counts up the attempt stored in the row
ScheduleRetryRowAttempt(row, attempt, delay, error, errorCode) ==
  [row EXCEPT !.status = "pending", !.attempt = row.attempt + 1,
              !.scheduledFor = now + delay,
              !.previousAttempts =
                 Append(@, [attempt |-> attempt, error |-> error, errorCode |-> errorCode,
                            timestamp |-> now]),
              !.error = NULL, !.errorCode = NULL]

\* scheduleRetry: the UPDATE, built from the caller's attempt
ScheduleRetry(row, attempt, delay, error, errorCode) ==
  [row EXCEPT !.status = "pending", !.attempt = attempt + 1,
              !.scheduledFor = now + delay,
              !.previousAttempts =
                 Append(@, [attempt |-> attempt, error |-> error, errorCode |-> errorCode,
                            timestamp |-> now]),
              !.error = NULL, !.errorCode = NULL]

(***************************************************************************)
(* DLQManager                                                              *)
(***************************************************************************)
\* add: INSERT INTO dlq, from the task run the caller holds
DlqAdd(run, snap, error) ==
  Append(dlq, [taskRunId |-> run, taskId |-> snap.taskId, error |-> error,
               attempts |-> snap.attempt, previousAttempts |-> snap.previousAttempts,
               retried |-> FALSE])

(***************************************************************************)
(* HeartbeatMonitor                                                        *)
(***************************************************************************)
\* no recordHeartbeat call awaits its UPDATE
NoBeat == [state |-> "none", timeoutMs |-> 0, handle |-> NoTime]

NoTracker == [tracked |-> FALSE, handle |-> NoTime, timeoutMs |-> 0, beat |-> NoBeat]

\* the tracker object a suspended recordHeartbeat call holds leaves the map: the
\* call keeps the object with the handle it had
Detach(trk, handle) ==
  IF trk.beat.state = "held"
  THEN [trk.beat EXCEPT !.state = "detached", !.handle = handle]
  ELSE trk.beat

\* startTracking: a new timer and trackers.set; a handle the replaced tracker held
\* is not cleared and stays armed
StartTracking(r, heartbeatIntervalMs) ==
  /\ trackers' = [trackers EXCEPT ![r] = [tracked |-> TRUE,
                                          handle |-> now + 2 * heartbeatIntervalMs,
                                          timeoutMs |-> 2 * heartbeatIntervalMs,
                                          beat |-> Detach(trackers[r], trackers[r].handle)]]
  /\ orphanTimers' = IF trackers[r].handle # NoTime
                      THEN orphanTimers \cup {[run |-> r, due |-> trackers[r].handle]}
                      ELSE orphanTimers

\* cancelTracking: clearTimeout of the tracker's handle and trackers.delete
CancelTracking(trk, r) ==
  [trk EXCEPT ![r] = [NoTracker EXCEPT !.beat = Detach(trk[r], NoTime)]]

\* recordHeartbeat up to its await: returns when the run has no tracker, else
\* keeps the tracker object and issues the UPDATE of heartbeat_at
RecordHeartbeatStart(r) ==
  /\ r \in RunIds
  /\ trackers[r].tracked
  /\ trackers[r].beat.state = "none"
  /\ trackers' = [trackers EXCEPT ![r].beat = [state |-> "held",
                                               timeoutMs |-> trackers[r].timeoutMs,
                                               handle |-> NoTime]]
  /\ UNCHANGED <<dbVars, now, ticks, workerJobs, callbacks, orphanTimers, timeoutCalls,
                 plVars, idVars>>

\* recordHeartbeat after its await: clearTimeout of the handle of the tracker
\* object it holds and a new timer on that object, in the map or not
RecordHeartbeatReset(r) ==
  /\ r \in RunIds
  /\ trackers[r].beat.state # "none"
  /\ IF trackers[r].beat.state = "held"
     THEN /\ trackers' = [trackers EXCEPT ![r].handle = now + trackers[r].beat.timeoutMs,
                                          ![r].beat = NoBeat]
          /\ UNCHANGED orphanTimers
     ELSE /\ trackers' = [trackers EXCEPT ![r].beat = NoBeat]
          /\ orphanTimers' =
               (orphanTimers \ {[run |-> r, due |-> trackers[r].beat.handle]})
                 \cup {[run |-> r, due |-> now + trackers[r].beat.timeoutMs]}
  /\ UNCHANGED <<dbVars, now, ticks, workerJobs, callbacks, timeoutCalls, plVars, idVars>>

\* the timer of the current tracker expires: handleTimeout starts
TimerFire(r) ==
  /\ r \in RunIds
  /\ trackers[r].handle # NoTime
  /\ now >= trackers[r].handle
  /\ trackers' = [trackers EXCEPT ![r].handle = NoTime]
  /\ timeoutCalls' = IF trackers[r].tracked THEN timeoutCalls \cup {r} ELSE timeoutCalls
  /\ UNCHANGED <<dbVars, now, ticks, workerJobs, callbacks, orphanTimers, plVars, idVars>>

\* a timer no tracker refers to expires: handleTimeout starts
OrphanTimerFire(tm) ==
  /\ tm \in orphanTimers
  /\ now >= tm.due
  /\ orphanTimers' = orphanTimers \ {tm}
  /\ timeoutCalls' = IF trackers[tm.run].tracked THEN timeoutCalls \cup {tm.run}
                      ELSE timeoutCalls
  /\ UNCHANGED <<dbVars, now, ticks, workerJobs, callbacks, trackers, plVars, idVars>>

TimeoutRowAnyStatus(row) ==
  [row EXCEPT !.status = "timeout", !.error = "Task heartbeat timeout",
              !.errorCode = "TIMEOUT", !.completedAt = now]

\* handleTimeout: UPDATE ... SET status = 'timeout' WHERE id = $1 AND status = 'running'
TimeoutRow(row) ==
  IF row.status = "running"
  THEN [row EXCEPT !.status = "timeout", !.error = "Task heartbeat timeout",
                   !.errorCode = "TIMEOUT", !.completedAt = now]
  ELSE row

\* handleTimeout after its await: the UPDATE, then trackers.delete
HandleTimeout(r) ==
  /\ r \in timeoutCalls
  /\ taskRuns' = SetRun(r, TimeoutRow(taskRuns[r]))
  /\ timeoutCalls' = timeoutCalls \ {r}
  /\ trackers' = [trackers EXCEPT ![r] = [NoTracker EXCEPT !.beat = Detach(trackers[r], trackers[r].handle)]]
  /\ orphanTimers' = IF trackers[r].handle # NoTime
                      THEN orphanTimers \cup {[run |-> r, due |-> trackers[r].handle]}
                      ELSE orphanTimers
  /\ UNCHANGED <<tasks, dlq, mode, now, ticks, workerJobs, callbacks, plVars, idVars>>

(***************************************************************************)
(* TaskPoller.poll                                                         *)
(***************************************************************************)
IdleTick == [pc |-> "idle", claims |-> <<>>]

\* a tick in which the step of one claim moves every claim to pc
WithClaimAll(p, i, pc) ==
  LET cs == [j \in DOMAIN ticks[p].claims |-> [ticks[p].claims[j] EXCEPT !.pc = pc]]
  IN [ticks EXCEPT ![p] = IF \A j \in DOMAIN cs : cs[j].pc = "done"
                          THEN IdleTick ELSE [pc |-> "dispatch", claims |-> cs]]

\* the tick with claim i at pc; poll returns when every claimed run has settled
WithClaim(p, i, pc) ==
  LET cs == [ticks[p].claims EXCEPT ![i].pc = pc]
  IN [ticks EXCEPT ![p] = IF \A j \in DOMAIN cs : cs[j].pc = "done"
                          THEN IdleTick ELSE [pc |-> "dispatch", claims |-> cs]]

AtClaim(p, i, pc) ==
  /\ ticks[p].pc = "dispatch"
  /\ i \in DOMAIN ticks[p].claims
  /\ ticks[p].claims[i].pc = pc

\* poll: canAcceptTasks, return 0 unless the orchestrator accepts tasks
PollCheck(p) ==
  /\ ticks[p].pc = "idle"
  /\ ticks' = IF CanAcceptTasks THEN [ticks EXCEPT ![p].pc = "claim"] ELSE ticks
  /\ UNCHANGED <<dbVars, now, workerJobs, callbacks, hbVars, plVars, idVars>>

\* poll: getNext(maxConcurrency), return 0 when nothing is eligible
PollGetNext(p, maxConcurrency) ==
  /\ ticks[p].pc = "claim"
  /\ LET got == GetNext(maxConcurrency)
     IN ticks' = [ticks EXCEPT ![p] =
                    IF got = <<>> THEN IdleTick
                    ELSE [pc |-> "dispatch",
                          claims |-> [i \in DOMAIN got |->
                                        [run |-> got[i], snap |-> taskRuns[got[i]],
                                         pc |-> "mark"]]]]
  /\ UNCHANGED <<dbVars, now, workerJobs, callbacks, hbVars, plVars, idVars>>

\* poll, per claimed run: markRunning
PollMarkRunning(p, i) ==
  /\ AtClaim(p, i, "mark")
  /\ LET r == ticks[p].claims[i].run
     IN taskRuns' = SetRun(r, MarkRunning(taskRuns[r]))
  /\ ticks' = WithClaim(p, i, "send")
  /\ UNCHANGED <<tasks, dlq, mode, now, workerJobs, callbacks, hbVars, plVars, idVars>>

\* poll, per claimed run: executor.dispatch hands the run to the worker
PollDispatch(p, i) ==
  /\ AtClaim(p, i, "send")
  /\ LET c == ticks[p].claims[i]
     IN workerJobs' = workerJobs \cup {[run |-> c.run, attempt |-> c.snap.attempt]}
  /\ ticks' = WithClaim(p, i, "track")
  /\ UNCHANGED <<dbVars, now, callbacks, hbVars, plVars, idVars>>

\* poll, per claimed run: executor.dispatch throws
PollDispatchFails(p, i) ==
  /\ AtClaim(p, i, "send")
  /\ ticks' = WithClaim(p, i, "catch")
  /\ UNCHANGED <<dbVars, now, workerJobs, callbacks, hbVars, plVars, idVars>>

\* poll, per claimed run: registry.getTask, then startTracking
PollTrack(p, i) ==
  /\ AtClaim(p, i, "track")
  /\ LET c == ticks[p].claims[i]
     IN IF tasks[c.snap.taskId].registered
        THEN StartTracking(c.run, tasks[c.snap.taskId].heartbeatIntervalMs)
        ELSE UNCHANGED <<trackers, orphanTimers>>
  /\ ticks' = WithClaim(p, i, "done")
  /\ UNCHANGED <<dbVars, now, workerJobs, callbacks, timeoutCalls, plVars, idVars>>

\* a catch block that never retries
AttemptsRemainNever(snap) == FALSE

\* the condition of the catch block: retry while task.attempt < task.maxRetries
AttemptsRemain(snap) == tasks[snap.taskId].registered /\ snap.attempt < snap.maxRetries

DispatchError == "dispatch error"

\* poll, catch block: scheduleRetry from the claimed snapshot, or dlqManager.add
PollCatch(p, i) ==
  /\ AtClaim(p, i, "catch")
  /\ LET c == ticks[p].claims[i]
         t == tasks[c.snap.taskId]
     IN IF AttemptsRemain(c.snap)
        THEN /\ taskRuns' =
                  IF RetryAllowed(c.snap.attempt, c.snap.maxRetries)
                  THEN SetRun(c.run,
                         ScheduleRetry(taskRuns[c.run], c.snap.attempt,
                            CalculateDelay(t.retryBackoff, t.retryDelayMs,
                                           t.maxRetryDelayMs, c.snap.attempt),
                            DispatchError, "DISPATCH_FAILED"))
                  ELSE taskRuns
             /\ ticks' = WithClaim(p, i, "done")
             /\ dlq' = dlq
        ELSE /\ Len(dlq) < MaxDlq
             /\ dlq' = DlqAdd(c.run, c.snap, DispatchError)
             /\ ticks' = WithClaim(p, i, "markFailed")
             /\ taskRuns' = taskRuns
  /\ UNCHANGED <<tasks, mode, now, workerJobs, callbacks, hbVars, plVars, idVars>>

\* poll, catch block: scheduleRetry, dlqManager.add or markFailed rejects; the
\* promise of this run is rejected and Promise.allSettled records it
PollHandlingFails(p, i) ==
  /\ AtClaim(p, i, "catch") \/ AtClaim(p, i, "markFailed")
  /\ ticks' = WithClaim(p, i, "done")
  /\ UNCHANGED <<dbVars, now, workerJobs, callbacks, hbVars, plVars, idVars>>

\* poll, catch block: markFailed(runId, message, 'DISPATCH_FAILED')
PollMarkFailed(p, i) ==
  /\ AtClaim(p, i, "markFailed")
  /\ LET r == ticks[p].claims[i].run
     IN taskRuns' = SetRun(r, MarkFailed(taskRuns[r], DispatchError, "DISPATCH_FAILED"))
  /\ ticks' = WithClaim(p, i, "hook")
  /\ UNCHANGED <<tasks, dlq, mode, now, workerJobs, callbacks, hbVars, plVars, idVars>>

\* markFailed, after its UPDATE: onTaskStatusChange
PollHook(p, i) ==
  /\ AtClaim(p, i, "hook")
  /\ mode' = OnTaskStatusChange(mode, taskRuns)
  /\ ticks' = WithClaim(p, i, "done")
  /\ UNCHANGED <<tasks, taskRuns, dlq, now, workerJobs, callbacks, hbVars, plVars, idVars>>

\* the database clock advances
AdvanceTime ==
  /\ now < MaxTime
  /\ now' = now + 1
  /\ UNCHANGED <<dbVars, ticks, workerJobs, callbacks, hbVars, plVars, idVars>>

(***************************************************************************)
(* ServiceRegistry                                                         *)
(***************************************************************************)
Range(f) == {f[x] : x \in DOMAIN f}

NoService == [exists |-> FALSE, version |-> NULL]

\* calculateCodeHash(JSON.stringify(task)): the serialized fields, whose digest
\* is taken to be free of collisions
CalculateCodeHash(cfg) ==
  <<cfg.id, cfg.allowedNext, cfg.retries, cfg.retryBackoff, cfg.retryDelayMs,
    cfg.maxRetryDelayMs, cfg.heartbeatIntervalMs, cfg.concurrency, cfg.priority>>

OrphanedTasksAll(sid, req) ==
  {t \in TaskIds : tasks[t].registered /\ tasks[t].serviceId = sid}

\* registerService, version changed: the task ids of the service absent from the request
OrphanedTasks(sid, req) ==
  {t \in TaskIds : tasks[t].registered /\ tasks[t].serviceId = sid
                    /\ \A i \in DOMAIN req.tasks : req.tasks[i].id # t}

\* UPDATE task_runs SET status = 'cancelled' WHERE task_id = $2 AND status = 'pending'
CancelOrphanRuns(runs, orphaned, version) ==
  [r \in DOMAIN runs |->
     IF runs[r].taskId \in orphaned /\ runs[r].status = "pending"
     THEN [runs[r] EXCEPT !.status = "cancelled",
                          !.error = <<"Task type removed in version", version>>,
                          !.completedAt = now]
     ELSE runs[r]]

\* a code version that is bumped by every registration of a known task
NewCodeVersionAlways(existing, codeHash) ==
  IF existing.registered THEN existing.codeVersion + 1 ELSE 1

\* registerService, per task: the code version the upsert stores
NewCodeVersion(existing, codeHash) ==
  IF existing.registered /\ existing.codeHash # codeHash
  THEN existing.codeVersion + 1
  ELSE IF existing.registered THEN existing.codeVersion ELSE 1

\* registerService, per task: the row the upsert stores
UpsertTask(tbl, sid, cfg) ==
  [tbl EXCEPT ![cfg.id] =
     [registered |-> TRUE, serviceId |-> sid, allowedNext |-> cfg.allowedNext,
      concurrency |-> cfg.concurrency, retries |-> cfg.retries,
      priority |-> cfg.priority, retryBackoff |-> cfg.retryBackoff,
      retryDelayMs |-> cfg.retryDelayMs, maxRetryDelayMs |-> cfg.maxRetryDelayMs,
      heartbeatIntervalMs |-> cfg.heartbeatIntervalMs,
      codeHash |-> CalculateCodeHash(cfg),
      codeVersion |-> NewCodeVersion(tbl[cfg.id], CalculateCodeHash(cfg))]]

\* registerService, per task: INSERT INTO task_code_history ... WHERE NOT EXISTS
RecordHistory(hist, tbl, cfg, version) ==
  LET h == CalculateCodeHash(cfg)
      existing == tbl[cfg.id]
  IN IF existing.registered /\ existing.codeHash # h
        /\ ~\E k \in DOMAIN hist : hist[k].taskId = cfg.id /\ hist[k].codeHash = h
     THEN Append(hist, [taskId |-> cfg.id, codeVersion |-> NewCodeVersion(existing, h),
                        codeHash |-> h, serviceVersion |-> version])
     ELSE hist

\* registerService: the loop over the tasks of the request
RECURSIVE UpsertTasks(_, _, _, _, _)
UpsertTasks(tbl, hist, sid, version, cfgs) ==
  IF cfgs = <<>> THEN [tasks |-> tbl, history |-> hist]
  ELSE UpsertTasks(UpsertTask(tbl, sid, Head(cfgs)),
                   RecordHistory(hist, tbl, Head(cfgs), version),
                   sid, version, Tail(cfgs))

RegisterService(req) ==
  LET existing == services[req.serviceId]
      versionChanged == existing.exists /\ existing.version # req.version
      done == UpsertTasks(tasks, codeHistory, req.serviceId, req.version, req.tasks)
  IN /\ \A t \in TaskIds : done.tasks[t].codeVersion <= MaxCodeVersion
     /\ services' = [services EXCEPT ![req.serviceId] =
                        [exists |-> TRUE, version |-> req.version]]
     /\ taskRuns' = IF versionChanged
                     THEN CancelOrphanRuns(taskRuns, OrphanedTasks(req.serviceId, req),
                                           req.version)
                     ELSE taskRuns
     /\ tasks' = done.tasks
     /\ codeHistory' = done.history
     /\ UNCHANGED <<dlq, mode, now, ticks, workerJobs, callbacks, hbVars,
                     pipelines, pipelineRuns, triggers, idVars>>

(***************************************************************************)
(* PipelineValidator                                                       *)
(***************************************************************************)
SeqToSet(s) == {s[i] : i \in DOMAIN s}

IndexOf(s, x) == CHOOSE i \in DOMAIN s : s[i] = x /\ \A j \in 1..(i - 1) : s[j] # x

RECURSIVE SetToSeq(_)
SetToSeq(S) ==
  IF S = {} THEN <<>>
  ELSE LET x == CHOOSE y \in S : TRUE IN <<x>> \o SetToSeq(S \ {x})

\* loadTasks: the task nodes of the ids that have a row
LoadTasks(ids) ==
  [t \in {x \in ids : tasks[x].registered} |-> tasks[t].allowedNext]

\* detectCycles: the depth-first search with its recursion stack
RECURSIVE Dfs(_, _, _, _, _)
RECURSIVE DfsNext(_, _, _, _, _, _)
Dfs(g, node, path, stack, st) ==
  IF node \in stack
  THEN [st EXCEPT !.cycles =
          Append(@, SubSeq(path, IndexOf(path, node), Len(path)) \o <<node>>)]
  ELSE IF node \in st.visited THEN st
  ELSE DfsNext(g, g[node], 1, Append(path, node), stack \cup {node},
               [st EXCEPT !.visited = @ \cup {node}])

DfsNext(g, nexts, i, path, stack, st) ==
  IF i > Len(nexts) THEN st
  ELSE DfsNext(g, nexts, i + 1, path, stack,
               IF nexts[i] \in DOMAIN g THEN Dfs(g, nexts[i], path, stack, st) ELSE st)

RECURSIVE DfsAll(_, _, _)
DfsAll(g, order, st) ==
  IF order = <<>> THEN st
  ELSE DfsAll(g, Tail(order),
              IF Head(order) \in st.visited THEN st
              ELSE Dfs(g, Head(order), <<>>, {}, st))

DetectCyclesNone(g) == <<>>

\* detectCycles(graph): the cycles found from every node not yet visited
DetectCycles(g) == DfsAll(g, SetToSeq(DOMAIN g), [visited |-> {}, cycles |-> <<>>]).cycles

\* analyzeDAG: the nodes no allowedNext names
EntryNodes(g) == {t \in DOMAIN g : \A u \in DOMAIN g : t \notin SeqToSet(g[u])}

\* validatePipeline(taskIds)
ValidatePipeline(taskIds) ==
  LET g == LoadTasks(SeqToSet(taskIds))
      missing == {t \in SeqToSet(taskIds) : t \notin DOMAIN g}
      badRefs == {<<t, n>> \in (DOMAIN g) \X TaskIds :
                    n \in SeqToSet(g[t]) /\ n \notin DOMAIN g}
  IN IF missing # {} THEN [valid |-> FALSE, entryTasks |-> {}, graph |-> g]
     ELSE [valid |-> badRefs = {} /\ DetectCycles(g) = <<>> /\ EntryNodes(g) # {},
           entryTasks |-> EntryNodes(g), graph |-> g]

\* discoverAllTasks: the ids reachable from the entry tasks through allowedNext
RECURSIVE Discover(_, _)
Discover(found, queue) ==
  IF queue = <<>> THEN found
  ELSE LET t == Head(queue)
           fresh == IF tasks[t].registered
                    THEN SelectSeq(tasks[t].allowedNext, LAMBDA n : n \notin found)
                    ELSE <<>>
       IN Discover(found \cup SeqToSet(fresh), Tail(queue) \o fresh)

\* validatePipelineDefinition(pipelineId, name, entryTaskIds)
ValidatePipelineDefinition(entryTaskIds) ==
  IF entryTaskIds = <<>> THEN [valid |-> FALSE, entryTasks |-> {}, graph |-> <<>>]
  ELSE ValidatePipeline(SetToSeq(Discover(SeqToSet(entryTaskIds), entryTaskIds)))

(***************************************************************************)
(* PipelineExecutor                                                        *)
(***************************************************************************)
PipelineIds == {"p"}

NoPipeline == [exists |-> FALSE, entryTasks |-> <<>>, structure |-> <<>>,
               failureMode |-> "fail-fast"]

\* upsertPipeline: validatePipelineDefinition, then the structure of the graph found
UpsertPipeline(pid, entryTaskIds, failureMode) ==
  LET v == ValidatePipelineDefinition(entryTaskIds)
  IN /\ v.valid
     /\ pipelines' = [pipelines EXCEPT ![pid] =
                         [exists |-> TRUE, entryTasks |-> entryTaskIds,
                          structure |-> v.graph, failureMode |-> failureMode]]
     /\ UNCHANGED <<dbVars, now, ticks, workerJobs, callbacks, hbVars,
                     pipelineRuns, services, codeHistory, triggers, idVars>>

IdleTrigger == [pc |-> "idle", pid |-> NULL, failureMode |-> NULL,
                pipeline |-> NoPipeline, prun |-> 0, i |-> 0, result |-> "none"]

\* the rows of pipeline_runs a reader outside the inserting transaction sees
Visible(p) == p \in DOMAIN pipelineRuns /\ pipelineRuns[p].tx = "committed"

\* POST /api/pipelines/:id/trigger: canAcceptTasks, 503 when it is false
TriggerRequest(pid, failureMode) ==
  /\ triggers.pc = "idle"
  /\ Len(pipelineRuns) < MaxPipelineRuns
  /\ triggers' = IF CanAcceptTasks
                  THEN [IdleTrigger EXCEPT !.pc = "load", !.pid = pid,
                                           !.failureMode = failureMode]
                  ELSE [IdleTrigger EXCEPT !.result = "503"]
  /\ UNCHANGED <<dbVars, now, ticks, workerJobs, callbacks, hbVars,
                  pipelines, pipelineRuns, services, codeHistory, idVars>>

\* triggerPipeline: SELECT the pipeline row, validatePipeline(pipeline.entry_tasks);
\* the row read here is the one the rest of the call uses
TriggerValidate ==
  /\ triggers.pc = "load"
  /\ triggers' =
       IF pipelines[triggers.pid].exists
          /\ ValidatePipeline(pipelines[triggers.pid].entryTasks).valid
       THEN [triggers EXCEPT !.pc = "insert", !.pipeline = pipelines[triggers.pid]]
       ELSE [IdleTrigger EXCEPT !.result = "error"]
  /\ UNCHANGED <<dbVars, now, ticks, workerJobs, callbacks, hbVars,
                  pipelines, pipelineRuns, services, codeHistory, idVars>>

\* triggerPipeline, in db.tx: INSERT INTO pipeline_runs ... 'running'
TriggerInsertRun ==
  /\ triggers.pc = "insert"
  /\ Len(pipelineRuns) < MaxPipelineRuns
  /\ pipelineRuns' = Append(pipelineRuns,
        [pipelineId |-> triggers.pid, status |-> "running",
         failureMode |-> IF triggers.failureMode = NULL THEN "fail-fast"
                         ELSE triggers.failureMode,
         snapshot |-> triggers.pipeline.structure,
         entryTasks |-> triggers.pipeline.entryTasks, tx |-> "open"])
  /\ triggers' = [triggers EXCEPT !.pc = "enqueue", !.pipeline = NoPipeline,
                                   !.prun = Len(pipelineRuns) + 1, !.i = 1]
  /\ UNCHANGED <<dbVars, now, ticks, workerJobs, callbacks, hbVars,
                  pipelines, services, codeHistory, idVars>>

\* triggerPipeline, in db.tx: queueManager.enqueue for the next entry task; the
\* transaction commits after the last one and rolls back when enqueue throws
TriggerEnqueue ==
  /\ triggers.pc = "enqueue"
  /\ LET entry == pipelineRuns[triggers.prun].entryTasks
         t == entry[triggers.i]
     IN IF ~tasks[t].registered
        THEN /\ pipelineRuns' = [pipelineRuns EXCEPT ![triggers.prun].tx = "aborted"]
             /\ triggers' = [IdleTrigger EXCEPT !.result = "error"]
             /\ taskRuns' = taskRuns
        ELSE /\ Len(taskRuns) < MaxRuns
             /\ taskRuns' = Append(taskRuns, NewTaskRun(t, triggers.prun, 0, {}, NoTime))
             /\ IF triggers.i = Len(entry)
                THEN /\ pipelineRuns' =
                          [pipelineRuns EXCEPT ![triggers.prun].tx = "committed"]
                     /\ triggers' = [IdleTrigger EXCEPT !.result = "ok",
                                                        !.prun = triggers.prun]
                ELSE /\ pipelineRuns' = pipelineRuns
                     /\ triggers' = [triggers EXCEPT !.i = @ + 1]
  /\ UNCHANGED <<tasks, dlq, mode, now, ticks, workerJobs, callbacks, hbVars,
                  pipelines, services, codeHistory, idVars>>

\* triggerPipeline, in db.tx: queueManager.enqueue rejects with a database error;
\* the transaction rolls back, the rows enqueue wrote through this.db stay
TriggerEnqueueFails ==
  /\ triggers.pc = "enqueue"
  /\ pipelineRuns' = [pipelineRuns EXCEPT ![triggers.prun].tx = "aborted"]
  /\ triggers' = [IdleTrigger EXCEPT !.result = "error"]
  /\ UNCHANGED <<dbVars, now, ticks, workerJobs, callbacks, hbVars,
                  pipelines, services, codeHistory, idVars>>

\* the predecessors of a task in a structure snapshot
Predecessors(snapshot, t) ==
  {u \in DOMAIN snapshot : t \in SeqToSet(snapshot[u])}

CompletedRunsOf(prun, ts) ==
  {r \in RunIds : /\ taskRuns[r].prun = prun
                   /\ taskRuns[r].taskId \in ts
                   /\ taskRuns[r].status = "completed"}

\* isJoinTaskReady
IsJoinTaskReady(t, prun) ==
  IF ~Visible(prun) THEN FALSE
  ELSE LET preds == Predecessors(pipelineRuns[prun].snapshot, t)
       IN IF Cardinality(preds) <= 1 THEN TRUE
          ELSE Cardinality(CompletedRunsOf(prun, preds)) = Cardinality(preds)

\* buildUpstreamRefs: the rows come ORDER BY completed_at DESC and each row
\* overwrites the entry of its task, so the row read last stays
BuildUpstreamRefs(t, prun) ==
  IF ~Visible(prun) THEN {}
  ELSE LET preds == Predecessors(pipelineRuns[prun].snapshot, t)
           rows(u) == {r \in CompletedRunsOf(prun, {u}) : taskRuns[r].outputPath # 0}
           last(u) == CHOOSE r \in rows(u) : \A q \in rows(u) \ {r} :
                         \/ taskRuns[r].completedAt < taskRuns[q].completedAt
                         \/ /\ taskRuns[r].completedAt = taskRuns[q].completedAt
                            /\ r < q
       IN {[task |-> u, outputPath |-> taskRuns[last(u)].outputPath] :
             u \in {x \in preds : rows(x) # {}}}

\* queueDownstreamTasks: the tasks to queue, from the task's allowed_next
NextTaskIds(allowedNext, selectedNext) ==
  IF selectedNext.given /\ Len(selectedNext.ids) > 0
  THEN SelectSeq(selectedNext.ids, LAMBDA n : n \in SeqToSet(allowedNext))
  ELSE allowedNext

\* a callback body without selectedNext
NoSelection == [given |-> FALSE, ids |-> <<>>]

NoCallback == [pc |-> "none", next |-> <<>>, refs |-> {}, hasFailures |-> FALSE,
               selected |-> NoSelection]

SetCb(r, cb) == [callbacks EXCEPT ![r] = cb]

(***************************************************************************)
(* POST /api/callback/:runId: markCompleted or markFailed, then                *)
(* queueDownstreamTasks or handleTaskFailure                                   *)
(***************************************************************************)
\* the worker reports success: cancelTracking, markCompleted
CbSuccess(job, selectedNext) ==
  /\ job \in workerJobs
  /\ callbacks[job.run].pc = "none"
  /\ workerJobs' = workerJobs \ {job}
  /\ trackers' = CancelTracking(trackers, job.run)
  /\ taskRuns' = SetRun(job.run, MarkCompleted(taskRuns[job.run], job.run))
  /\ callbacks' = SetCb(job.run, [NoCallback EXCEPT !.pc = "hook",
                                                    !.selected = selectedNext])
  /\ UNCHANGED <<tasks, dlq, mode, now, ticks, orphanTimers, timeoutCalls, plVars, idVars>>

\* markCompleted, after its UPDATE: onTaskStatusChange
CbHook(r) ==
  /\ callbacks[r].pc = "hook"
  /\ mode' = OnTaskStatusChange(mode, taskRuns)
  /\ callbacks' = SetCb(r, [callbacks[r] EXCEPT !.pc = "downstream"])
  /\ UNCHANGED <<tasks, taskRuns, dlq, now, ticks, workerJobs, hbVars, plVars, idVars>>

\* queueDownstreamTasks: load the task run and its task, choose the next tasks
QdStart(r) ==
  /\ callbacks[r].pc = "downstream"
  /\ LET row == taskRuns[r]
         nexts == NextTaskIds(tasks[row.taskId].allowedNext, callbacks[r].selected)
     IN callbacks' = SetCb(r,
          IF row.prun = 0 \/ ~tasks[row.taskId].registered THEN NoCallback
          ELSE IF nexts = <<>> THEN [NoCallback EXCEPT !.pc = "cpc_status"]
          ELSE [NoCallback EXCEPT !.pc = "qd_join", !.next = nexts,
                                  !.selected = callbacks[r].selected])
  /\ UNCHANGED <<dbVars, now, ticks, workerJobs, hbVars, plVars, idVars>>

\* queueDownstreamTasks, per next task: isJoinTaskReady
QdJoin(r) ==
  /\ callbacks[r].pc = "qd_join"
  /\ LET cb == callbacks[r]
     IN callbacks' = SetCb(r,
          IF IsJoinTaskReady(Head(cb.next), taskRuns[r].prun)
          THEN [cb EXCEPT !.pc = "qd_refs"]
          ELSE IF Tail(cb.next) = <<>> THEN NoCallback
          ELSE [cb EXCEPT !.next = Tail(@)])
  /\ UNCHANGED <<dbVars, now, ticks, workerJobs, hbVars, plVars, idVars>>

\* queueDownstreamTasks, per next task: buildUpstreamRefs
QdRefs(r) ==
  /\ callbacks[r].pc = "qd_refs"
  /\ callbacks' = SetCb(r, [callbacks[r] EXCEPT
        !.pc = "qd_enqueue",
        !.refs = BuildUpstreamRefs(Head(callbacks[r].next), taskRuns[r].prun)])
  /\ UNCHANGED <<dbVars, now, ticks, workerJobs, hbVars, plVars, idVars>>

\* queueDownstreamTasks, per next task: queueManager.enqueue, priority inherited
QdEnqueue(r) ==
  /\ callbacks[r].pc = "qd_enqueue"
  /\ LET cb == callbacks[r]
         t == Head(cb.next)
     IN IF ~tasks[t].registered
        THEN /\ taskRuns' = taskRuns
             /\ callbacks' = SetCb(r, NoCallback)
        ELSE /\ Len(taskRuns) < MaxRuns
             /\ taskRuns' = Append(taskRuns,
                   NewTaskRun(t, taskRuns[r].prun, taskRuns[r].priority, cb.refs, NoTime))
             /\ callbacks' = SetCb(r,
                   IF Tail(cb.next) = <<>> THEN NoCallback
                   ELSE [cb EXCEPT !.pc = "qd_join", !.next = Tail(@), !.refs = {}])
  /\ UNCHANGED <<tasks, dlq, mode, now, ticks, workerJobs, hbVars, plVars, idVars>>

ActiveRuns(prun) ==
  {r \in RunIds : taskRuns[r].prun = prun
                   /\ taskRuns[r].status \in {"pending", "running", "waiting"}}

FailedRuns(prun) ==
  {r \in RunIds : taskRuns[r].prun = prun
                   /\ taskRuns[r].status \in {"failed", "timeout", "cancelled"}}

\* checkPipelineCompletion: return unless the pipeline run is running
CpcStatus(r) ==
  /\ callbacks[r].pc = "cpc_status"
  /\ LET p == taskRuns[r].prun
     IN callbacks' = SetCb(r,
          IF Visible(p) /\ pipelineRuns[p].status = "running"
          THEN [NoCallback EXCEPT !.pc = "cpc_active"] ELSE NoCallback)
  /\ UNCHANGED <<dbVars, now, ticks, workerJobs, hbVars, plVars, idVars>>

\* checkPipelineCompletion: return while pending, running or waiting runs remain
CpcActive(r) ==
  /\ callbacks[r].pc = "cpc_active"
  /\ callbacks' = SetCb(r,
        IF ActiveRuns(taskRuns[r].prun) # {} THEN NoCallback
        ELSE [NoCallback EXCEPT !.pc = "cpc_failed"])
  /\ UNCHANGED <<dbVars, now, ticks, workerJobs, hbVars, plVars, idVars>>

\* checkPipelineCompletion: count the failed, timeout and cancelled runs
CpcFailed(r) ==
  /\ callbacks[r].pc = "cpc_failed"
  /\ callbacks' = SetCb(r, [NoCallback EXCEPT
        !.pc = "cpc_update", !.hasFailures = FailedRuns(taskRuns[r].prun) # {}])
  /\ UNCHANGED <<dbVars, now, ticks, workerJobs, hbVars, plVars, idVars>>

\* checkPipelineCompletion: UPDATE pipeline_runs SET status = $2 WHERE id = $1
CompletionStatus(hasFailures) == IF hasFailures THEN "failed" ELSE "completed"

CpcUpdate(r) ==
  /\ callbacks[r].pc = "cpc_update"
  /\ pipelineRuns' = [pipelineRuns EXCEPT ![taskRuns[r].prun].status =
                         CompletionStatus(callbacks[r].hasFailures)]
  /\ callbacks' = SetCb(r, NoCallback)
  /\ UNCHANGED <<dbVars, now, ticks, workerJobs, hbVars,
                  pipelines, services, codeHistory, triggers, idVars>>

WorkerError == "worker error"

\* the worker reports failure: cancelTracking, then scheduleRetry while attempts
\* remain, dlqManager.add otherwise
CbFailure(job) ==
  /\ job \in workerJobs
  /\ callbacks[job.run].pc = "none"
  /\ workerJobs' = workerJobs \ {job}
  /\ trackers' = CancelTracking(trackers, job.run)
  /\ LET row == taskRuns[job.run]
         t == tasks[row.taskId]
     IN IF RetryAllowed(row.attempt, row.maxRetries)
        THEN /\ taskRuns' = SetRun(job.run,
                    ScheduleRetry(row, row.attempt,
                       CalculateDelay(t.retryBackoff, t.retryDelayMs, t.maxRetryDelayMs,
                                      row.attempt),
                       WorkerError, "E1"))
             /\ UNCHANGED <<dlq, callbacks>>
        ELSE /\ Len(dlq) < MaxDlq
             /\ dlq' = DlqAdd(job.run, row, WorkerError)
             /\ callbacks' = SetCb(job.run, [NoCallback EXCEPT !.pc = "markFailed"])
             /\ taskRuns' = taskRuns
  /\ UNCHANGED <<tasks, mode, now, ticks, orphanTimers, timeoutCalls, plVars, idVars>>

\* the failure callback: markFailed
CbMarkFailed(r) ==
  /\ callbacks[r].pc = "markFailed"
  /\ taskRuns' = SetRun(r, MarkFailed(taskRuns[r], WorkerError, "E1"))
  /\ callbacks' = SetCb(r, [NoCallback EXCEPT !.pc = "hookF"])
  /\ UNCHANGED <<tasks, dlq, mode, now, ticks, workerJobs, hbVars, plVars, idVars>>

\* markFailed, after its UPDATE: onTaskStatusChange
CbFailHook(r) ==
  /\ callbacks[r].pc = "hookF"
  /\ mode' = OnTaskStatusChange(mode, taskRuns)
  /\ callbacks' = SetCb(r, [NoCallback EXCEPT !.pc = "htf"])
  /\ UNCHANGED <<tasks, taskRuns, dlq, now, ticks, workerJobs, hbVars, plVars, idVars>>

\* handleTaskFailure, fail-fast: UPDATE task_runs SET status = 'cancelled'
\* WHERE pipeline_run_id = $1 AND status = 'pending'
CancelPendingRuns(runs, prun) ==
  [r \in DOMAIN runs |->
     IF runs[r].prun = prun /\ runs[r].status = "pending"
     THEN [runs[r] EXCEPT !.status = "cancelled",
                          !.error = "Pipeline failed in fail-fast mode",
                          !.completedAt = now]
     ELSE runs[r]]

\* handleTaskFailure: load the run and the failure mode; cancel the pending runs
\* in fail-fast mode, checkPipelineCompletion otherwise
HtfStart(r) ==
  /\ callbacks[r].pc = "htf"
  /\ LET p == taskRuns[r].prun
     IN IF p = 0 \/ ~Visible(p)
        THEN /\ callbacks' = SetCb(r, NoCallback)
             /\ taskRuns' = taskRuns
        ELSE IF pipelineRuns[p].failureMode = "fail-fast"
        THEN /\ taskRuns' = CancelPendingRuns(taskRuns, p)
             /\ callbacks' = SetCb(r, [NoCallback EXCEPT !.pc = "htf_fail"])
        ELSE /\ callbacks' = SetCb(r, [NoCallback EXCEPT !.pc = "cpc_status"])
             /\ taskRuns' = taskRuns
  /\ UNCHANGED <<tasks, dlq, mode, now, ticks, workerJobs, hbVars, plVars, idVars>>

\* handleTaskFailure, fail-fast: UPDATE pipeline_runs SET status = 'failed'
HtfFail(r) ==
  /\ callbacks[r].pc = "htf_fail"
  /\ pipelineRuns' = [pipelineRuns EXCEPT ![taskRuns[r].prun].status = "failed"]
  /\ callbacks' = SetCb(r, NoCallback)
  /\ UNCHANGED <<dbVars, now, ticks, workerJobs, hbVars,
                  pipelines, services, codeHistory, triggers, idVars>>

(***************************************************************************)
(* The orchestrator after construction, on an empty database               *)
(***************************************************************************)
ServiceIds == {"s", "t"}

Init ==
  /\ tasks = [t \in TaskIds |-> NoTask]
  /\ taskRuns = <<>>
  /\ dlq = <<>>
  /\ mode = "running"
  /\ now = 0
  /\ ticks = [p \in Pollers |-> IdleTick]
  /\ workerJobs = {}
  /\ callbacks = [r \in AllRunIds |-> NoCallback]
  /\ trackers = [r \in AllRunIds |-> NoTracker]
  /\ orphanTimers = {}
  /\ timeoutCalls = {}
  /\ pipelines = [p \in PipelineIds |-> NoPipeline]
  /\ pipelineRuns = <<>>
  /\ services = [sv \in ServiceIds |-> NoService]
  /\ codeHistory = <<>>
  /\ triggers = IdleTrigger
  /\ idempotencyCache = {}
  /\ enqueueCall = IdleEnqueue
  /\ lastCall = NoCall

\* a task of a registration request: 1 time unit is 100 ms
TaskCfg(id, allowedNext, retries, concurrency) ==
  [id |-> id, allowedNext |-> allowedNext, retries |-> retries,
   retryBackoff |-> "exponential", retryDelayMs |-> 1, maxRetryDelayMs |-> 2,
   heartbeatIntervalMs |-> 1, concurrency |-> concurrency, priority |-> 1]

(***************************************************************************)
(* SpecQ: standalone task runs of one task with retries 2 and concurrency 1 *)
(* under one poller, worker callbacks, heartbeat timeouts and maintenance   *)
(***************************************************************************)
QRequests ==
  {[serviceId |-> "s", version |-> "v1", tasks |-> <<TaskCfg("A", <<>>, 2, 1)>>]}

PollStep(p, maxConcurrency) ==
  \/ PollCheck(p)
  \/ PollGetNext(p, maxConcurrency)
  \/ \E i \in 1..MaxConcurrency :
        \/ PollMarkRunning(p, i)
        \/ PollDispatch(p, i)
        \/ PollDispatchFails(p, i)
        \/ PollTrack(p, i)
        \/ PollCatch(p, i)
        \/ PollMarkFailed(p, i)
        \/ PollHook(p, i)

\* at most MaxStandalone runs are enqueued
EnqueueA == Len(taskRuns) < MaxStandalone /\ Enqueue("A", 0)

NextQ ==
  \/ \E req \in QRequests : RegisterService(req)
  \/ EnqueueA
  \/ PollStep(1, MaxConcurrency)
  \/ \E job \in JobIds : CbSuccess(job, NoSelection) \/ CbFailure(job)
  \/ \E r \in AllRunIds :
        \/ CbHook(r)
        \/ QdStart(r)
        \/ CbMarkFailed(r)
        \/ CbFailHook(r)
        \/ HtfStart(r)
        \/ TimerFire(r)
        \/ HandleTimeout(r)
  \/ AdvanceTime
  \/ RequestMaintenance
  \/ EnterMaintenance
  \/ ExitMaintenance

SpecQ == Init /\ [][NextQ]_vars

(***************************************************************************)
(* Properties of the queue, the poller and the retry path, under SpecQ      *)
(***************************************************************************)
Terminal == {"completed", "failed", "timeout", "cancelled"}

\* the status changes a task run may make in one step
MonotoneStep(old, new) ==
  \/ new.status = old.status
  \/ old.status = "pending" /\ new.status \in {"running", "cancelled"}
  \/ old.status = "running" /\ new.status \in {"completed", "failed", "timeout"}
  \/ /\ old.status \in Terminal
     /\ new.status = "pending"
     /\ new.attempt = old.attempt + 1
     /\ new.error = NULL
     /\ new.errorCode = NULL

\* C1: the status of a task run goes from pending only to running or cancelled,
\* from running only to completed, failed or timeout, and from a terminal status
\* only back to pending through a retry that increments attempt and clears the
\* error fields
C1_MonotoneStatus ==
  [][\A r \in RunIds : MonotoneStep(taskRuns[r], taskRuns'[r])]_vars

\* C2: for every task with concurrency > 0, the number of its running task runs
\* is at most its concurrency
C2_ConcurrencyCap ==
  \A t \in TaskIds :
    (tasks[t].registered /\ tasks[t].concurrency > 0)
      => RunningCount(t) <= tasks[t].concurrency

\* C8: while the maintenance mode is not running, no task run goes from pending
\* to running
C8_NoDispatchInMaintenance ==
  [][\A r \in RunIds :
       (taskRuns[r].status = "pending" /\ taskRuns'[r].status = "running")
         => mode = "running"]_vars

\* C10: a task run with maxRetries = N that is failed, or has a DLQ entry, has
\* made N + 1 attempts and holds N previous attempts (for retries = 2: three
\* attempts, two previous attempts)
C10_RetriesThenDlq ==
  /\ \A r \in RunIds :
        taskRuns[r].status = "failed"
          => /\ taskRuns[r].attempt = taskRuns[r].maxRetries + 1
             /\ Len(taskRuns[r].previousAttempts) = taskRuns[r].maxRetries
  /\ \A k \in DOMAIN dlq :
        /\ dlq[k].attempts = taskRuns[dlq[k].taskRunId].maxRetries + 1
        /\ Len(dlq[k].previousAttempts) = taskRuns[dlq[k].taskRunId].maxRetries

(***************************************************************************)
(* Pipeline runs.  Services register, the pipeline is stored and triggered, *)
(* a poller claiming one run per tick dispatches the runs, and the workers  *)
(* answer.  No task has retries or a concurrency limit.                     *)
(***************************************************************************)
\* a registration of the four tasks with the given allowedNext lists
Graph(nextOfA, nextOfB, nextOfC) ==
  [serviceId |-> "s", version |-> "v1",
   tasks |-> <<TaskCfg("A", nextOfA, 0, 0), TaskCfg("B", nextOfB, 0, 0),
               TaskCfg("C", nextOfC, 0, 0), TaskCfg("D", <<>>, 0, 0)>>]

Diamond == Graph(<<"B", "C">>, <<"D">>, <<"D">>)

Fork == Graph(<<"B", "C">>, <<>>, <<"D">>)

\* the structure upsertPipeline stores for a pipeline over the tasks of req
StructureOf(req) ==
  [t \in {req.tasks[i].id : i \in DOMAIN req.tasks} |->
     (CHOOSE cfg \in SeqToSet(req.tasks) : cfg.id = t).allowedNext]

PollerConcurrency == 1  \* TaskPoller.maxConcurrency of the pipeline specifications

PollDispatches(p) ==
  \/ PollCheck(p)
  \/ PollGetNext(p, PollerConcurrency)
  \/ PollMarkRunning(p, 1)
  \/ PollDispatch(p, 1)
  \/ PollTrack(p, 1)

TriggerStep(pid, failureMode) ==
  \/ TriggerRequest(pid, failureMode)
  \/ TriggerValidate
  \/ TriggerInsertRun
  \/ TriggerEnqueue

SuccessStep(r) ==
  \/ CbHook(r)
  \/ QdStart(r)
  \/ QdJoin(r)
  \/ QdRefs(r)
  \/ QdEnqueue(r)
  \/ CpcStatus(r)
  \/ CpcActive(r)
  \/ CpcFailed(r)
  \/ CpcUpdate(r)

FailureStep(r) ==
  \/ CbMarkFailed(r)
  \/ CbFailHook(r)
  \/ HtfStart(r)
  \/ HtfFail(r)

(***************************************************************************)
(* SpecDrain: up to MaxDrainRuns standalone runs of A, a poller that claims  *)
(* one run per tick, success callbacks and the maintenance requests         *)
(***************************************************************************)
DrainEnqueue == Len(taskRuns) < MaxDrainRuns /\ Enqueue("A", 0)

NextDrain ==
  \/ \E req \in QRequests : RegisterService(req)
  \/ DrainEnqueue
  \/ PollDispatches(1)
  \/ \E job \in JobIds : CbSuccess(job, NoSelection)
  \/ \E r \in AllRunIds : CbHook(r) \/ QdStart(r)
  \/ RequestMaintenance
  \/ EnterMaintenance
  \/ ExitMaintenance

SpecDrain == Init /\ [][NextDrain]_vars

\* C9: with mode waiting_for_maintenance, 2 pending runs, no tick in progress
\* and the one running run just completed by markCompleted, the hook that
\* markCompleted awaits moves the mode to maintenance
C9_MaintenanceDrain ==
  [][\A r \in RunIds :
       (/\ callbacks[r].pc = "hook"
        /\ callbacks'[r].pc = "downstream"
        /\ mode = "waiting_for_maintenance"
        /\ ticks[1] = IdleTick
        /\ CountRuns(LAMBDA row : row.status = "pending") = 2
        /\ CountRuns(LAMBDA row : row.status = "running") = 0)
       => mode' = "maintenance"]_vars

(***************************************************************************)
(* SpecP: the diamond A -> {B, C} -> D with entry task A.  A registration   *)
(* of the same tasks with A leading nowhere is also made, before or after   *)
(* the trigger.                                                             *)
(***************************************************************************)
PRequests == {Diamond, Graph(<<>>, <<"D">>, <<"D">>)}

NextP ==
  \/ \E req \in PRequests : RegisterService(req)
  \/ UpsertPipeline("p", <<"A">>, "fail-fast")
  \/ TriggerStep("p", NULL)
  \/ PollDispatches(1)
  \/ \E job \in JobIds : CbSuccess(job, NoSelection)
  \/ \E r \in AllRunIds : SuccessStep(r)

SpecP == Init /\ [][NextP]_vars

(***************************************************************************)
(* SpecF: the fork A -> {B, C}, C -> D with entry task A, in fail-fast      *)
(* mode; workers answer with success or failure.                            *)
(***************************************************************************)
FRequests == {Fork, Graph(<<>>, <<>>, <<"D">>)}

NextF ==
  \/ \E req \in FRequests : RegisterService(req)
  \/ UpsertPipeline("p", <<"A">>, "fail-fast")
  \/ TriggerStep("p", NULL)
  \/ PollDispatches(1)
  \/ \E job \in JobIds : CbSuccess(job, NoSelection) \/ CbFailure(job)
  \/ \E r \in AllRunIds : SuccessStep(r) \/ FailureStep(r)

SpecF == Init /\ [][NextF]_vars

(***************************************************************************)
(* SpecJFull: the diamond in a pipeline that names A and B as entry tasks,  *)
(* so that B runs once as an entry task and once more after A.              *)
(***************************************************************************)
JRequests == {Diamond, Graph(<<>>, <<>>, <<"D">>)}

NextJ ==
  \/ PollDispatches(1)
  \/ \E job \in JobIds : CbSuccess(job, NoSelection)
  \/ \E r \in AllRunIds : SuccessStep(r)

NextJFull ==
  \/ \E req \in JRequests : RegisterService(req)
  \/ UpsertPipeline("p", <<"A", "B">>, "fail-fast")
  \/ TriggerStep("p", NULL)
  \/ NextJ

SpecJFull == Init /\ [][NextJFull]_vars

(***************************************************************************)
(* SpecJ: SpecJFull from the states it reaches when A and the entry run of  *)
(* B have completed and their callbacks have returned: the second run of B  *)
(* and the run of C are pending.                                            *)
(***************************************************************************)
JTasks ==
  LET r1 == UpsertTasks([t \in TaskIds |-> NoTask], <<>>, "s", "v1", Diamond.tasks)
      r2 == UpsertTasks(r1.tasks, r1.history, "s", "v1",
                        Graph(<<>>, <<>>, <<"D">>).tasks)
  IN UpsertTasks(r2.tasks, r2.history, "s", "v1", Diamond.tasks)

JRun(t, refs, status, out, at) ==
  [NewTaskRun(t, 1, 0, refs, NoTime) EXCEPT !.status = status, !.outputPath = out,
                                            !.completedAt = at]

JRefs == {[task |-> "A", outputPath |-> 1]}

InitJ ==
  /\ tasks = JTasks.tasks
  /\ taskRuns = <<JRun("A", {}, "completed", 1, 0), JRun("B", {}, "completed", 2, 0),
                  JRun("B", JRefs, "pending", 0, NoTime),
                  JRun("C", JRefs, "pending", 0, NoTime)>>
  /\ dlq = <<>>
  /\ mode = "running"
  /\ now = 0
  /\ ticks = [p \in Pollers |-> IdleTick]
  /\ workerJobs = {}
  /\ callbacks = [r \in AllRunIds |-> NoCallback]
  /\ trackers = [r \in AllRunIds |-> NoTracker]
  /\ orphanTimers = {}
  /\ timeoutCalls = {}
  /\ pipelines = [p \in PipelineIds |->
                    [exists |-> TRUE, entryTasks |-> <<"A", "B">>,
                     structure |-> StructureOf(Diamond), failureMode |-> "fail-fast"]]
  /\ pipelineRuns = <<[pipelineId |-> "p", status |-> "running",
                       failureMode |-> "fail-fast", snapshot |-> StructureOf(Diamond),
                       entryTasks |-> <<"A", "B">>, tx |-> "committed"]>>
  /\ services = [sv \in ServiceIds |-> [exists |-> TRUE, version |-> "v1"]]
  /\ codeHistory = JTasks.history
  /\ triggers = [IdleTrigger EXCEPT !.result = "ok", !.prun = 1]
  /\ idempotencyCache = {}
  /\ enqueueCall = IdleEnqueue
  /\ lastCall = NoCall

SpecJ == InitJ /\ [][NextJ]_vars

(***************************************************************************)
(* Properties of the pipeline executor                                      *)
(***************************************************************************)
RunsOf(p, t) == {r \in RunIds : taskRuns[r].prun = p /\ taskRuns[r].taskId = t}

\* the step in which the callback of run r enqueues a run of task t
Enqueues(r, t) ==
  /\ callbacks[r].pc = "qd_enqueue"
  /\ Head(callbacks[r].next) = t
  /\ callbacks'[r] # callbacks[r]
  /\ Len(taskRuns') = Len(taskRuns) + 1

\* C3: queueDownstreamTasks enqueues a task with two or more predecessors in the
\* structure snapshot only when every predecessor has at least one completed
\* task run in the same pipeline run
C3_JoinReadiness ==
  [][\A r \in RunIds : \A t \in TaskIds :
       LET p == taskRuns[r].prun
           preds == Predecessors(pipelineRuns[p].snapshot, t)
       IN (Enqueues(r, t) /\ Cardinality(preds) >= 2)
            => \A u \in preds : CompletedRunsOf(p, {u}) # {}]_vars

\* C4: in the diamond, D is enqueued only when B and C are both completed, at
\* most once, and with upstreamRefs that contain both B and C
C4_DiamondJoinOnce ==
  \A p \in DOMAIN pipelineRuns :
    pipelineRuns[p].snapshot = StructureOf(Diamond)
      => /\ Cardinality(RunsOf(p, "D")) <= 1
         /\ \A d \in RunsOf(p, "D") :
               /\ CompletedRunsOf(p, {"B"}) # {}
               /\ CompletedRunsOf(p, {"C"}) # {}
               /\ {ref.task : ref \in taskRuns[d].upstreamRefs} = {"B", "C"}

\* C5: in a fail-fast run of the fork pipeline, once handleTaskFailure has
\* returned for a failed task run, the pipeline run is failed and none of its
\* task runs is pending
C5_FailFastNoPending ==
  \A r \in RunIds :
    LET p == taskRuns[r].prun
    IN (/\ taskRuns[r].status = "failed"
        /\ callbacks[r].pc = "none"
        /\ p # 0
        /\ pipelineRuns[p].snapshot = StructureOf(Fork)
        /\ pipelineRuns[p].failureMode = "fail-fast")
         => /\ pipelineRuns[p].status = "failed"
            /\ \A q \in RunIds : taskRuns[q].prun = p => taskRuns[q].status # "pending"

\* C6: in the step that marks a run of the fork pipeline completed, none of its
\* task runs is pending, running or waiting
C6_CompletedMeansNoActive ==
  [][\A p \in DOMAIN pipelineRuns :
       (/\ pipelineRuns[p].snapshot = StructureOf(Fork)
        /\ pipelineRuns[p].status # "completed"
        /\ pipelineRuns'[p].status = "completed")
         => \A q \in DOMAIN taskRuns' :
              taskRuns'[q].prun = p
                => taskRuns'[q].status \notin {"pending", "running", "waiting"}]_vars

\* the tasks the entry tasks lead to are all registered and form an acyclic graph
StoredGraphValid(pid) ==
  /\ pipelines[pid].exists
  /\ ValidatePipelineDefinition(pipelines[pid].entryTasks).valid

\* C7: triggerPipeline on a stored pipeline whose tasks are all registered and
\* whose graph is acyclic does not fail; when it returns it has created a
\* running pipeline run with exactly one task run, pending with attempt 1, for
\* each entry task and none for any other task
C7_TriggerSucceeds ==
  [][/\ (triggers.pc = "load" /\ StoredGraphValid(triggers.pid))
          => triggers'.result # "error"
     /\ (triggers.pc = "enqueue" /\ triggers'.result = "ok")
          => LET p == triggers.prun
                 entry == SeqToSet(pipelineRuns[p].entryTasks)
             IN /\ pipelineRuns'[p].status = "running"
                /\ \A t \in TaskIds :
                      LET rs == {r \in DOMAIN taskRuns' :
                                   taskRuns'[r].prun = p /\ taskRuns'[r].taskId = t}
                      IN IF t \in entry
                         THEN /\ Cardinality(rs) = 1
                              /\ \A r \in rs : taskRuns'[r].attempt = 1
                         ELSE rs = {}]_vars

(***************************************************************************)
(* SpecR: one standalone run of A (retries 2) under two poll ticks that may *)
(* overlap (setInterval does not wait for the previous poll; manualPoll)    *)
(***************************************************************************)
MaxRetryRuns == 1       \* task runs enqueued in the retry specification

RetryEnqueue == Len(taskRuns) < MaxRetryRuns /\ Enqueue("A", 0)

NextR ==
  \/ \E req \in QRequests : RegisterService(req)
  \/ RetryEnqueue
  \/ \E p \in Pollers : PollStep(p, PollerConcurrency)
  \/ AdvanceTime

SpecR == Init /\ [][NextR]_vars

StrictlyIncreasing(prev) ==
  \A i \in 1..(Len(prev) - 1) : prev[i].attempt < prev[i + 1].attempt

\* C11: every task run has attempt <= maxRetries + 1 and, once a retry has
\* occurred, previousAttempts holds attempt - 1 entries ordered by strictly
\* increasing attempt
C11_AttemptHistory ==
  \A r \in RunIds :
    /\ taskRuns[r].attempt <= taskRuns[r].maxRetries + 1
    /\ taskRuns[r].previousAttempts # <<>>
         => /\ Len(taskRuns[r].previousAttempts) = taskRuns[r].attempt - 1
            /\ StrictlyIncreasing(taskRuns[r].previousAttempts)

(***************************************************************************)
(* SpecI: standalone runs of A enqueued with idempotency keys, dispatched   *)
(* one per tick and completed; a completed run's result is cached for       *)
(* IdempotencyTtl time units; the clock advances and expired rows are       *)
(* cleaned up                                                               *)
(***************************************************************************)
MaxIdemRuns == 2        \* task runs enqueued with an idempotency key
IdempotencyTtl == 1     \* ttlSeconds of cacheResult, in time units

\* the worker reports success for a run: cancelTracking, markCompleted
CbSuccessKeyed(job) ==
  /\ job \in workerJobs
  /\ callbacks[job.run].pc = "none"
  /\ workerJobs' = workerJobs \ {job}
  /\ trackers' = CancelTracking(trackers, job.run)
  /\ taskRuns' = SetRun(job.run, MarkCompleted(taskRuns[job.run], job.run))
  /\ callbacks' = SetCb(job.run, [NoCallback EXCEPT !.pc = "cache"])
  /\ UNCHANGED <<tasks, dlq, mode, now, ticks, orphanTimers, timeoutCalls, plVars,
                  idVars>>

\* the success callback of a run with an idempotency key: cacheResult
CbCacheResult(r) ==
  /\ callbacks[r].pc = "cache"
  /\ idempotencyCache' =
       IF taskRuns[r].idempotencyKey = NULL THEN idempotencyCache
       ELSE CacheResult(idempotencyCache, taskRuns[r].idempotencyKey,
                        taskRuns[r].taskId, r, tasks[taskRuns[r].taskId].codeVersion,
                        taskRuns[r].outputPath, IdempotencyTtl)
  /\ callbacks' = SetCb(r, [NoCallback EXCEPT !.pc = "hook"])
  /\ UNCHANGED <<dbVars, now, ticks, workerJobs, hbVars, plVars, enqueueCall, lastCall>>

\* a keyed enqueue: a hit always returns, a miss inserts while rows remain
KeyedEnqueue(key) ==
  /\ CheckIdempotency(key) # NoCached \/ Len(taskRuns) < MaxIdemRuns
  /\ EnqueueCheck("A", key)

NextI ==
  \/ \E req \in QRequests : RegisterService(req)
  \/ \E key \in Keys : KeyedEnqueue(key)
  \/ EnqueueInsert
  \/ PollDispatches(1)
  \/ \E job \in JobIds : CbSuccessKeyed(job)
  \/ \E r \in AllRunIds : CbCacheResult(r) \/ CbHook(r) \/ QdStart(r)
  \/ CleanupExpired
  \/ AdvanceTime

SpecI == Init /\ [][NextI]_vars

\* the rows of the cache for a key that have not expired
LiveEntries(key) == {e \in idempotencyCache : e.key = key /\ now < e.expiresAt}

\* C12: an enqueue with a key that has a non-expired cache entry returns that
\* entry's taskRunId with status completed and the entry's outputPath as
\* inputPath and inserts no task run; with no entry or an expired one the call
\* goes on to insert exactly one new pending task run carrying the key
C12_EnqueueIdempotent ==
  [][/\ (enqueueCall.pc = "idle" /\ enqueueCall' # enqueueCall)
         => /\ taskRuns' = taskRuns
            /\ IF LiveEntries(enqueueCall'.key) # {}
               THEN /\ enqueueCall'.pc = "idle"
                    /\ \E e \in LiveEntries(enqueueCall'.key) :
                          enqueueCall'.result = [runId |-> e.taskRunId,
                                                 status |-> "completed",
                                                 inputPath |-> e.outputPath]
               ELSE enqueueCall'.pc = "insert"
     /\ (enqueueCall.pc = "insert" /\ enqueueCall'.pc = "idle")
         => /\ Len(taskRuns') = Len(taskRuns) + 1
            /\ SubSeq(taskRuns', 1, Len(taskRuns)) = taskRuns
            /\ taskRuns'[Len(taskRuns')].status = "pending"
            /\ taskRuns'[Len(taskRuns')].idempotencyKey = enqueueCall.key
            /\ enqueueCall'.result.runId = Len(taskRuns')
            /\ enqueueCall'.result.status = "pending"]_vars

\* an enqueue with a key was answered from the cache with the completed run
C12_Witness ==
  /\ enqueueCall.pc = "idle"
  /\ enqueueCall.key \in Keys
  /\ enqueueCall.result.status = "completed"
  /\ enqueueCall.result.runId \in RunIds
  /\ taskRuns[enqueueCall.result.runId].idempotencyKey = enqueueCall.key
  /\ enqueueCall.result.inputPath = taskRuns[enqueueCall.result.runId].outputPath

\* the task runs carrying an idempotency key
RunsWithKey(key) == {r \in RunIds : taskRuns[r].idempotencyKey = key}

\* C13: while every enqueue so far lies within the TTL (the clock has not yet
\* advanced by IdempotencyTtl), at most one task run carrying a given
\* idempotency key has been created, whether or not the first one has completed
C13_ExactlyOnce ==
  now < IdempotencyTtl => \A key \in Keys : Cardinality(RunsWithKey(key)) <= 1

(***************************************************************************)
(* SpecC: the idempotency cache under arbitrary cacheResult and             *)
(* cleanupExpired calls while the clock advances                            *)
(***************************************************************************)
MaxCachedRun == 2       \* task run ids, code versions and output paths passed to cacheResult

\* the tasks whose results are cached
CachedTasks == {"A", "B"}

\* a call of cacheResult(idempotencyKey, taskId, taskRunId, ..., outputPath, ttl)
CacheResultCall(key, taskId, taskRunId, codeVersion, outputPath) ==
  /\ idempotencyCache' =
       CacheResult(idempotencyCache, key, taskId, taskRunId, codeVersion, outputPath,
                   IdempotencyTtl)
  /\ UNCHANGED <<dbVars, now, ticks, workerJobs, callbacks, hbVars, plVars, enqueueCall, lastCall>>

NextC ==
  \/ \E key \in Keys, t \in CachedTasks, r \in 1..MaxCachedRun,
        cv \in 1..MaxCachedRun, out \in 1..MaxCachedRun :
       CacheResultCall(key, t, r, cv, out)
  \/ CleanupExpired
  \/ AdvanceTime

SpecC == Init /\ [][NextC]_vars

\* C14: the cache never holds two entries for one key (hence never two
\* non-expired ones), and after cacheResult stored (taskRunId, outputPath) for a
\* key, replacing any entry it had, lookup of the key returns that pair
C14_OneEntryPerKey ==
  /\ [](\A e1, e2 \in idempotencyCache : e1.key = e2.key => e1 = e2)
  /\ [][\A key \in Keys, r \in 1..MaxCachedRun, out \in 1..MaxCachedRun :
          (/\ idempotencyCache' # idempotencyCache
           /\ now' = now
           /\ \E e \in idempotencyCache' :
                /\ e.key = key /\ e.taskRunId = r /\ e.outputPath = out
                /\ e.expiresAt = now + IdempotencyTtl)
            => CheckIdempotency(key)' = [taskRunId |-> r, outputPath |-> out]]_vars

\* an entry stored by cacheResult after the clock advanced is the one lookup
\* returns for its key
C14_Witness ==
  \E e \in idempotencyCache :
    /\ e.taskRunId = 2 /\ e.outputPath = 2
    /\ now = 1 /\ e.expiresAt = now + IdempotencyTtl
    /\ CheckIdempotency(e.key) = [taskRunId |-> 2, outputPath |-> 2]

(***************************************************************************)
(* SpecV: a sequence of registrations of service s whose tasks A and B      *)
(* change their configuration between registrations                        *)
(***************************************************************************)
MaxCfgRetries == 2      \* the retries field of a registered task ranges over 0..MaxCfgRetries

VRequests ==
  {[serviceId |-> "s", version |-> v, tasks |-> <<TaskCfg("A", <<>>, r, 0)>>] :
     v \in {"v1", "v2"}, r \in 0..MaxCfgRetries}
  \cup
  {[serviceId |-> "s", version |-> "v2",
    tasks |-> <<TaskCfg("A", <<>>, 0, 0), TaskCfg("B", <<>>, r, 0)>>] :
     r \in 0..MaxCfgRetries}

NextV == \E req \in VRequests : RegisterService(req)

SpecV == Init /\ [][NextV]_vars

\* C15: a registration raises a task's codeVersion by exactly 1 when the stored
\* codeHash changes, leaves it unchanged when the hash stays the same, stores 1
\* for a new task, and never lowers it
C15_CodeVersionStep ==
  [][\A t \in TaskIds :
       /\ (tasks[t].registered /\ tasks'[t].codeHash # tasks[t].codeHash)
            => tasks'[t].codeVersion = tasks[t].codeVersion + 1
       /\ (tasks[t].registered /\ tasks'[t].codeHash = tasks[t].codeHash)
            => tasks'[t].codeVersion = tasks[t].codeVersion
       /\ (~tasks[t].registered /\ tasks'[t].registered)
            => tasks'[t].codeVersion = 1
       /\ tasks[t].registered
            => tasks'[t].registered /\ tasks'[t].codeVersion >= tasks[t].codeVersion]_vars

\* task A has been registered with a changed configuration twice and has
\* version 3, while B, registered with one configuration only, has version 1
C15_Witness ==
  /\ tasks["A"].registered /\ tasks["A"].codeVersion = 3
  /\ tasks["B"].registered /\ tasks["B"].codeVersion = 1

\* the rows of TaskCodeHistory for a task and a code hash
HistoryRows(t, h) ==
  {k \in DOMAIN codeHistory : codeHistory[k].taskId = t /\ codeHistory[k].codeHash = h}

\* C16: TaskCodeHistory holds exactly one row for the code hash every task is
\* currently registered with (its first registration included), carrying a
\* codeVersion the task has had, and never two rows for one (taskId, codeHash)
C16_HistoryComplete ==
  /\ \A t \in TaskIds :
        tasks[t].registered =>
          /\ Cardinality(HistoryRows(t, tasks[t].codeHash)) = 1
          /\ \A k \in HistoryRows(t, tasks[t].codeHash) :
                codeHistory[k].codeVersion <= tasks[t].codeVersion
  /\ \A k1, k2 \in DOMAIN codeHistory :
        (/\ codeHistory[k1].taskId = codeHistory[k2].taskId
         /\ codeHistory[k1].codeHash = codeHistory[k2].codeHash) => k1 = k2

(***************************************************************************)
(* SpecT: one run of A under the poller and the heartbeat monitor, with a   *)
(* worker that may report failure or stay silent.  The orchestrator's own   *)
(* steps (poll ticks, timers, the awaits of its handlers, the clock) are    *)
(* weakly fair; the worker's report is not                                  *)
(***************************************************************************)
OrchStepT ==
  \/ \E req \in QRequests : RegisterService(req)
  \/ RetryEnqueue
  \/ PollStep(1, PollerConcurrency)
  \/ \E r \in AllRunIds :
        \/ CbMarkFailed(r)
        \/ CbFailHook(r)
        \/ HtfStart(r)
        \/ TimerFire(r)
        \/ HandleTimeout(r)
  \/ AdvanceTime

WorkerStepT == \E job \in JobIds : CbFailure(job)

NextT == OrchStepT \/ WorkerStepT

SpecT == Init /\ [][NextT]_vars /\ WF_vars(OrchStepT)

\* the dead-letter queue holds an entry for the run
InDlq(r) == \E k \in DOMAIN dlq : dlq[k].taskRunId = r

\* C17: a run the heartbeat monitor marked timeout is eventually rescheduled
\* as pending or added to the dead-letter queue
C17_TimeoutHandedOff ==
  \A r \in AllRunIds :
    (r \in RunIds /\ taskRuns[r].status = "timeout")
      ~> (r \in RunIds /\ (taskRuns[r].status = "pending" \/ InDlq(r)))

(***************************************************************************)
(* SpecE: a pipeline of the two entry tasks A and B is triggered; an        *)
(* enqueue inside the trigger's transaction may fail                        *)
(***************************************************************************)
ERequests == {Graph(<<>>, <<>>, <<>>)}

NextE ==
  \/ \E req \in ERequests : RegisterService(req)
  \/ UpsertPipeline("p", <<"A", "B">>, "fail-fast")
  \/ TriggerStep("p", NULL)
  \/ TriggerEnqueueFails
  \/ PollDispatches(1)
  \/ \E job \in JobIds : CbSuccess(job, NoSelection)
  \/ \E r \in AllRunIds :
        \/ CbHook(r)
        \/ QdStart(r)
        \/ CpcStatus(r)
        \/ CpcActive(r)
        \/ CpcFailed(r)
        \/ CpcUpdate(r)

SpecE == Init /\ [][NextE]_vars

\* C18: a trigger that failed leaves nothing behind: no task run belongs to a
\* pipeline run whose transaction was rolled back
C18_NoPartialState ==
  \A r \in RunIds :
    taskRuns[r].prun # 0 => pipelineRuns[taskRuns[r].prun].tx # "aborted"

(***************************************************************************)
(* SpecM: the pipeline of the entry tasks A and B is triggered while        *)
(* maintenance is requested, entered and left                               *)
(***************************************************************************)
NextM ==
  \/ \E req \in ERequests : RegisterService(req)
  \/ UpsertPipeline("p", <<"A", "B">>, "fail-fast")
  \/ TriggerStep("p", NULL)
  \/ PollDispatches(1)
  \/ \E job \in JobIds : CbSuccess(job, NoSelection)
  \/ \E r \in AllRunIds :
        \/ CbHook(r)
        \/ QdStart(r)
        \/ CpcStatus(r)
        \/ CpcActive(r)
        \/ CpcFailed(r)
        \/ CpcUpdate(r)
  \/ RequestMaintenance
  \/ EnterMaintenance
  \/ ExitMaintenance

SpecM == Init /\ [][NextM]_vars

\* C19: while the mode is not running no step of a trigger request creates a
\* pipeline run or a task run of an entry task, and a request that arrives then
\* is answered 503
C19_NoTriggerInMaintenance ==
  [][mode # "running" =>
       /\ Len(pipelineRuns') = Len(pipelineRuns)
       /\ (triggers.pc = "enqueue" /\ triggers' # triggers)
            => Len(taskRuns') = Len(taskRuns)
       /\ (triggers.pc = "idle" /\ triggers' # triggers)
            => triggers'.pc = "idle" /\ triggers'.result = "503"]_vars

(***************************************************************************)
(* SpecK: the diamond A -> {B, C} -> D with entry task A, triggered in      *)
(* failure mode continue; workers answer with success or failure            *)
(***************************************************************************)
NextK ==
  \/ \E req \in PRequests : RegisterService(req)
  \/ UpsertPipeline("p", <<"A">>, "continue")
  \/ TriggerStep("p", "continue")
  \/ PollDispatches(1)
  \/ \E job \in JobIds : CbSuccess(job, NoSelection) \/ CbFailure(job)
  \/ \E r \in AllRunIds :
        \/ SuccessStep(r)
        \/ CbMarkFailed(r)
        \/ CbFailHook(r)
        \/ HtfStart(r)

SpecK == Init /\ [][NextK]_vars

\* no handler is in progress: no trigger, no poll tick, no dispatched job and no
\* callback is between two of its steps
Quiescent ==
  /\ triggers.pc = "idle"
  /\ \A q \in Pollers : ticks[q] = IdleTick
  /\ workerJobs = {}
  /\ \A r \in AllRunIds : callbacks[r].pc = "none"

\* C20: once every handler has returned and no task run of a diamond pipeline
\* run in mode continue is pending, running or waiting, the run has left status
\* running: it is failed if one of its task runs is failed, timeout or
\* cancelled, and completed otherwise
C20_ContinueLeavesRunning ==
  \A p \in DOMAIN pipelineRuns :
    (/\ Visible(p)
     /\ pipelineRuns[p].snapshot = StructureOf(Diamond)
     /\ pipelineRuns[p].failureMode = "continue"
     /\ Quiescent
     /\ ActiveRuns(p) = {})
      => pipelineRuns[p].status = CompletionStatus(FailedRuns(p) # {})

(***************************************************************************)
(* SpecS: RetryManager.scheduleRetry called directly, with every choice of  *)
(* its options, on runs of A, while the clock advances                      *)
(***************************************************************************)
MaxCalls == 2           \* direct calls made in one behaviour
MaxDelay == 2           \* retryDelayMs ranges over 0..MaxDelay, maxRetryDelayMs is MaxDelay + 1

RetryOptions ==
  [runId : AllRunIds, attempt : 1..MaxAttempt, maxRetries : 0..MaxAttempt,
   retryBackoff : {"fixed", "exponential"}, retryDelayMs : 0..MaxDelay,
   maxRetryDelayMs : {MaxDelay + 1}, error : {"boom"}, errorCode : {"E1"}]

\* scheduleRetry(options)
ScheduleRetryCall(o) ==
  /\ lastCall.seq < MaxCalls
  /\ o.runId \in RunIds
  /\ LET delay == CalculateDelay(o.retryBackoff, o.retryDelayMs, o.maxRetryDelayMs,
                                 o.attempt)
     IN IF RetryAllowed(o.attempt, o.maxRetries)
        THEN /\ taskRuns' = SetRun(o.runId,
                    ScheduleRetry(taskRuns[o.runId], o.attempt, delay, o.error,
                                  o.errorCode))
             /\ lastCall' = [seq |-> lastCall.seq + 1, op |-> "scheduleRetry",
                             args |-> o, ok |-> TRUE, out |-> <<delay>>]
        ELSE /\ taskRuns' = taskRuns
             /\ lastCall' = [seq |-> lastCall.seq + 1, op |-> "scheduleRetry",
                             args |-> o, ok |-> FALSE, out |-> <<>>]
  /\ UNCHANGED <<tasks, dlq, mode, now, ticks, workerJobs, callbacks, hbVars, plVars,
                  idempotencyCache, enqueueCall>>

NextS ==
  \/ \E req \in QRequests : RegisterService(req)
  \/ EnqueueA
  \/ \E o \in RetryOptions : ScheduleRetryCall(o)
  \/ AdvanceTime

SpecS == Init /\ [][NextS]_vars

\* the step is a call of op
Calls(op) == lastCall'.seq # lastCall.seq /\ lastCall'.op = op

\* C21: scheduleRetry with attempt >= maxRetries returns false and changes
\* nothing; otherwise it returns true and its one update makes the run pending
\* with attempt + 1 and scheduled_for = now + delay, clears error and error_code
\* and appends one record {attempt, error, errorCode, timestamp} to
\* previous_attempts; the earlier records and every other run stay as they are
C21_ScheduleRetry ==
  [][Calls("scheduleRetry") =>
       LET o == lastCall'.args
           old == taskRuns[o.runId]
           new == taskRuns'[o.runId]
       IN IF o.attempt >= o.maxRetries
          THEN ~lastCall'.ok /\ taskRuns' = taskRuns
          ELSE /\ lastCall'.ok
               /\ Len(taskRuns') = Len(taskRuns)
               /\ \A q \in RunIds : q # o.runId => taskRuns'[q] = taskRuns[q]
               /\ new.status = "pending"
               /\ new.attempt = o.attempt + 1
               /\ new.scheduledFor = now + lastCall'.out[1]
               /\ new.error = NULL /\ new.errorCode = NULL
               /\ Len(new.previousAttempts) = Len(old.previousAttempts) + 1
               /\ SubSeq(new.previousAttempts, 1, Len(old.previousAttempts))
                    = old.previousAttempts
               /\ new.previousAttempts[Len(new.previousAttempts)]
                    = [attempt |-> o.attempt, error |-> o.error,
                       errorCode |-> o.errorCode, timestamp |-> now]
               /\ new = [old EXCEPT !.status = new.status, !.attempt = new.attempt,
                                    !.scheduledFor = new.scheduledFor,
                                    !.error = NULL, !.errorCode = NULL,
                                    !.previousAttempts = new.previousAttempts]]_vars

\* scheduleRetry returned true twice for one run
C21_Witness ==
  /\ lastCall.seq = 2 /\ lastCall.op = "scheduleRetry" /\ lastCall.ok
  /\ taskRuns[lastCall.args.runId].status = "pending"
  /\ Len(taskRuns[lastCall.args.runId].previousAttempts) = 2

\* C22: the delay scheduleRetry computes is retryDelayMs for fixed backoff and
\* min(retryDelayMs * 2^(attempt - 1), maxRetryDelayMs) for exponential backoff;
\* the exponential delay never exceeds maxRetryDelayMs and is not larger than
\* the delay of the next attempt
C22_RetryDelay ==
  (lastCall.op = "scheduleRetry" /\ lastCall.ok) =>
    LET o == lastCall.args
        delay == lastCall.out[1]
        expo == o.retryDelayMs * 2^(o.attempt - 1)
    IN IF o.retryBackoff = "fixed" THEN delay = o.retryDelayMs
       ELSE /\ delay = IF expo <= o.maxRetryDelayMs THEN expo ELSE o.maxRetryDelayMs
            /\ delay <= o.maxRetryDelayMs
            /\ delay <= CalculateDelay(o.retryBackoff, o.retryDelayMs,
                                       o.maxRetryDelayMs, o.attempt + 1)

\* an exponential delay of the second attempt was cut to maxRetryDelayMs
C22_Witness ==
  /\ lastCall.op = "scheduleRetry" /\ lastCall.ok
  /\ lastCall.args.retryBackoff = "exponential"
  /\ lastCall.args.attempt = 2
  /\ lastCall.args.retryDelayMs * 2 > lastCall.args.maxRetryDelayMs
  /\ lastCall.out[1] = lastCall.args.maxRetryDelayMs

(***************************************************************************)
(* SpecG: QueueManager.getNext called directly on a queue of runs of A with *)
(* two priorities, some of them running and some rescheduled by a failed    *)
(* dispatch; A is registered with concurrency 0 or 2                        *)
(***************************************************************************)
MaxQueueRuns == 3       \* task runs enqueued
MaxLimit == 2           \* the limit of getNext ranges over 1..MaxLimit
MaxGetNextCalls == 1    \* direct calls of getNext in one behaviour

GRequests ==
  {[serviceId |-> "s", version |-> "v1", tasks |-> <<TaskCfg("A", <<>>, 2, c)>>] :
     c \in {0, 2}}

\* enqueue with a priority of the request
EnqueueG(priority) == Len(taskRuns) < MaxQueueRuns /\ Enqueue("A", priority)

\* the service registers once, with either configuration of A
RegisterG(req) == ~tasks["A"].registered /\ RegisterService(req)

\* getNext(limit)
GetNextCall(limit) ==
  /\ lastCall.seq < MaxGetNextCalls
  /\ lastCall' = [seq |-> lastCall.seq + 1, op |-> "getNext",
                  args |-> [limit |-> limit], ok |-> TRUE, out |-> GetNext(limit)]
  /\ UNCHANGED <<dbVars, now, ticks, workerJobs, callbacks, hbVars, plVars,
                  idempotencyCache, enqueueCall>>

NextG ==
  \/ \E req \in GRequests : RegisterG(req)
  \/ \E priority \in 1..2 : EnqueueG(priority)
  \/ PollStep(1, PollerConcurrency)
  \/ \E limit \in 1..MaxLimit : GetNextCall(limit)
  \/ AdvanceTime

SpecG == Init /\ [][NextG]_vars

\* the runs getNext may return: pending, not scheduled for later, and of a task
\* without a concurrency limit or with fewer running runs than its limit
Dispatchable ==
  {r \in RunIds :
     /\ taskRuns[r].status = "pending"
     /\ taskRuns[r].scheduledFor \in {NoTime} \cup 0..now
     /\ LET c == tasks[taskRuns[r].taskId].concurrency
            running == {q \in RunIds : /\ taskRuns[q].taskId = taskRuns[r].taskId
                                       /\ taskRuns[q].status = "running"}
        IN c = 0 \/ Cardinality(running) < c}

\* priority ascending, then creation order
ComesFirst(a, b) ==
  \/ taskRuns[a].priority < taskRuns[b].priority
  \/ taskRuns[a].priority = taskRuns[b].priority /\ a <= b

\* C23: getNext(limit) returns the first limit dispatchable runs in the order
\* priority ascending, creation ascending (all of them when there are fewer),
\* never a run that is not pending or is scheduled for later, and changes nothing
C23_GetNext ==
  [][Calls("getNext") =>
       LET out == lastCall'.out
           limit == lastCall'.args.limit
           got == {out[i] : i \in DOMAIN out}
       IN /\ UNCHANGED <<dbVars, now, ticks, workerJobs, callbacks, hbVars, plVars,
                          idempotencyCache, enqueueCall>>
          /\ got \subseteq Dispatchable
          /\ Len(out) = IF Cardinality(Dispatchable) < limit
                        THEN Cardinality(Dispatchable) ELSE limit
          /\ Cardinality(got) = Len(out)
          /\ \A i, j \in DOMAIN out : i < j => ComesFirst(out[i], out[j])
          /\ \A r \in Dispatchable \ got : \A q \in got : ComesFirst(q, r)]_vars

\* getNext returned a later run of priority 1 before an earlier run of
\* priority 2 and left out a pending run rescheduled for later
C23_Witness ==
  /\ lastCall.op = "getNext"
  /\ Len(lastCall.out) = 2
  /\ lastCall.out[1] > lastCall.out[2]
  /\ \E r \in RunIds : /\ taskRuns[r].status = "pending"
                        /\ taskRuns[r].scheduledFor > now
                        /\ r < lastCall.out[1]

\* the position of claim i of poller 1 after the step; the tick is idle again
\* once every claim is done
PcAfter(i) == IF ticks'[1].pc = "idle" THEN "done" ELSE ticks'[1].claims[i].pc

\* the claim i of poller 1 leaves the position pc of the tick in this step
Leaves(i, pc) ==
  /\ ticks[1].pc = "dispatch"
  /\ i \in DOMAIN ticks[1].claims
  /\ ticks[1].claims[i].pc = pc
  /\ PcAfter(i) # pc

NextB ==
  \/ \E req \in QRequests : RegisterService(req)
  \/ EnqueueA
  \/ PollStep(1, MaxConcurrency)
  \/ \E i \in 1..MaxConcurrency : PollHandlingFails(1, i)
  \/ AdvanceTime

SpecB == Init /\ [][NextB]_vars

MaxHbRuns == 2

HRequests ==
  {[serviceId |-> "s", version |-> "v1", tasks |-> <<TaskCfg("A", <<>>, 2, 1)>>]}

EnqueueH == Len(taskRuns) < MaxHbRuns /\ Enqueue("A", 0)

NextH ==
  \/ \E req \in HRequests : ~tasks["A"].registered /\ RegisterService(req)
  \/ EnqueueH
  \/ PollStep(1, 1)
  \/ \E job \in JobIds : CbSuccess(job, NoSelection) \/ CbFailure(job)
  \/ \E r \in AllRunIds :
        \/ CbHook(r)
        \/ QdStart(r)
        \/ CbMarkFailed(r)
        \/ CbFailHook(r)
        \/ HtfStart(r)
        \/ RecordHeartbeatStart(r)
        \/ RecordHeartbeatReset(r)
        \/ TimerFire(r)
        \/ HandleTimeout(r)
  \/ \E tm \in [run : AllRunIds, due : 0..(MaxTime + 2)] : OrphanTimerFire(tm)
  \/ AdvanceTime

SpecH == Init /\ [][NextH]_vars

\* the row handleTimeout's UPDATE leaves for a running run
TimedOut(row) ==
  [row EXCEPT !.status = "timeout", !.error = "Task heartbeat timeout",
              !.errorCode = "TIMEOUT", !.completedAt = now]

MaxOrphanRuns == 3

ORequests ==
  {[serviceId |-> "s", version |-> v, tasks |-> cfgs] :
     v \in {"v1", "v2"},
     cfgs \in {<<TaskCfg("A", <<>>, 0, 0), TaskCfg("B", <<>>, 0, 0)>>,
               <<TaskCfg("A", <<>>, 0, 0)>>}}
  \cup {[serviceId |-> "t", version |-> "v1", tasks |-> <<TaskCfg("B", <<>>, 0, 0)>>]}

EnqueueO(t) == Len(taskRuns) < MaxOrphanRuns /\ Enqueue(t, 0)

NextO ==
  \/ \E req \in ORequests : RegisterService(req)
  \/ \E t \in {"A", "B"} : EnqueueO(t)
  \/ PollStep(1, PollerConcurrency)

SpecO == Init /\ [][NextO]_vars

\* the task ids of a registration request
Incoming(req) == {req.tasks[i].id : i \in DOMAIN req.tasks}

\* the row the orphan cancellation leaves for a pending run
Removed(row, version) ==
  [row EXCEPT !.status = "cancelled",
              !.error = <<"Task type removed in version", version>>,
              !.completedAt = now]

\* C27: a registration of a known service under another version string cancels,
\* with the task-removed error, exactly the pending runs of the tasks that belong
\* to the service and are absent from the request, keeps every task row and
\* changes no other run; a registration under the same version string, or of an
\* unknown service, changes no run; and no other step cancels a run
C27_OrphanCancellation ==
  [][/\ \A req \in ORequests :
          RegisterService(req) =>
            /\ \A t \in TaskIds : tasks[t].registered => tasks'[t].registered
            /\ \A r \in RunIds :
                 taskRuns'[r] =
                   IF /\ services[req.serviceId].exists
                      /\ services[req.serviceId].version # req.version
                      /\ tasks[taskRuns[r].taskId].serviceId = req.serviceId
                      /\ taskRuns[r].taskId \notin Incoming(req)
                      /\ taskRuns[r].status = "pending"
                   THEN Removed(taskRuns[r], req.version)
                   ELSE taskRuns[r]
     /\ \A r \in RunIds :
          (taskRuns'[r].status = "cancelled" /\ taskRuns[r].status # "cancelled")
            => \E req \in ORequests : RegisterService(req)]_vars

\* service s, registered as v1 with A and B, is registered as v2 with A only:
\* the pending run of B is cancelled, the running run of B and the pending run
\* of A are as before, and B's row is kept
C27_Witness ==
  /\ services["s"].version = "v2"
  /\ tasks["B"].registered /\ tasks["B"].serviceId = "s"
  /\ \E r, q, k \in RunIds :
       /\ taskRuns[r].taskId = "B" /\ taskRuns[r].status = "cancelled"
       /\ taskRuns[r].error = <<"Task type removed in version", "v2">>
       /\ taskRuns[q].taskId = "B" /\ taskRuns[q].status = "running"
       /\ taskRuns[k].taskId = "A" /\ taskRuns[k].status = "pending"

(***************************************************************************)
(* SpecN: the fork A -> {B, C}, C -> D with entry task A; the success       *)
(* callbacks carry no selectedNext, an empty one, or one naming successors  *)
(* and other tasks; the tasks are registered, with or without the          *)
(* successors of A, between the callbacks                                   *)
(***************************************************************************)
Selections ==
  {NoSelection} \cup
  {[given |-> TRUE, ids |-> ids] :
     ids \in {<<>>, <<"B">>, <<"B", "C">>, <<"D">>, <<"B", "D">>}}

\* a registration made while no callback is being handled
RegisterN(req) ==
  /\ \A r \in AllRunIds : callbacks[r].pc = "none"
  /\ RegisterService(req)

NextN ==
  \/ \E req \in FRequests : RegisterN(req)
  \/ UpsertPipeline("p", <<"A">>, "fail-fast")
  \/ TriggerStep("p", NULL)
  \/ PollDispatches(1)
  \/ \E job \in JobIds, selectedNext \in Selections : CbSuccess(job, selectedNext)
  \/ \E r \in AllRunIds : SuccessStep(r)

SpecN == Init /\ [][NextN]_vars

\* the allowedNext of the task of run r, as a set
AllowedNextOf(r) == SeqToSet(tasks[taskRuns[r].taskId].allowedNext)

\* queueDownstreamTasks of run r returns after its choice of the next tasks
QdChooses(r) ==
  /\ callbacks[r].pc = "downstream"
  /\ callbacks'[r].pc # "downstream"
  /\ taskRuns[r].prun # 0
  /\ tasks[taskRuns[r].taskId].registered

\* C28: a task run that queueDownstreamTasks inserts is of a task in the
\* completed task's allowedNext and, when selectedNext was given, of a task in
\* selectedNext; and when selectedNext was given and has no task of allowedNext,
\* or allowedNext is empty, the call enqueues nothing and goes on to
\* checkPipelineCompletion
C28_OnlySelectedEnqueued ==
  [][\A r \in RunIds :
       /\ (callbacks[r].pc = "qd_enqueue" /\ Len(taskRuns') = Len(taskRuns) + 1)
            => LET new == taskRuns'[Len(taskRuns')]
               IN /\ new.taskId \in AllowedNextOf(r)
                  /\ callbacks[r].selected.given
                       => new.taskId \in SeqToSet(callbacks[r].selected.ids)
       /\ (/\ QdChooses(r)
           /\ \/ AllowedNextOf(r) = {}
              \/ /\ callbacks[r].selected.given
                 /\ SeqToSet(callbacks[r].selected.ids) \cap AllowedNextOf(r) = {})
            => callbacks'[r].pc = "cpc_status"]_vars

(***************************************************************************)
(* SpecU: SpecJ with a clock: the second run of B completes later than the  *)
(* entry run of B                                                           *)
(***************************************************************************)
NextU == NextJ \/ AdvanceTime

SpecU == InitJ /\ [][NextU]_vars

\* the completed runs of task u in pipeline run prun that completed last
MostRecent(prun, u) ==
  {r \in CompletedRunsOf(prun, {u}) :
     \A q \in CompletedRunsOf(prun, {u}) : taskRuns[q].completedAt <= taskRuns[r].completedAt}

\* C29: the upstreamRefs that queueDownstreamTasks builds for a next task have
\* entries of predecessors only, and for each predecessor with a completed run
\* in the pipeline run an entry with the outputPath of a run of that predecessor
\* that completed last
C29_MostRecentUpstream ==
  [][\A r \in RunIds :
       (callbacks[r].pc = "qd_refs" /\ callbacks'[r].pc = "qd_enqueue")
         => LET prun == taskRuns[r].prun
                preds == Predecessors(pipelineRuns[prun].snapshot, Head(callbacks[r].next))
                refs == callbacks'[r].refs
            IN /\ \A e \in refs : e.task \in preds
               /\ \A u \in preds :
                    CompletedRunsOf(prun, {u}) # {}
                      => \E e \in refs :
                           /\ e.task = u
                           /\ \E m \in MostRecent(prun, u) :
                                e.outputPath = taskRuns[m].outputPath]_vars

(***************************************************************************)
(* SpecD: the tasks are registered with any allowedNext of up to MaxNext    *)
(* task ids for A, B and C, and validatePipeline is called once for a list  *)
(* of task ids, before or after the registration                            *)
(***************************************************************************)
MaxNext == 2

NextChoices ==
  UNION {[1..n -> TaskIds] : n \in 0..MaxNext}

DRequests ==
  {Graph(nextOfA, nextOfB, nextOfC) :
     nextOfA \in NextChoices, nextOfB \in NextChoices, nextOfC \in NextChoices}

RegisterD(req) == ~tasks["A"].registered /\ lastCall.seq = 0 /\ RegisterService(req)

ValidateInputs ==
  {<<"A">>, <<"B">>, <<"A", "B">>, <<"B", "C">>, <<"C", "A">>, <<"A", "B", "C">>,
   <<"A", "B", "C", "D">>}

\* validatePipeline(taskIds), its result kept
ValidateCall(taskIds) ==
  /\ lastCall.seq < 1
  /\ LET res == ValidatePipeline(taskIds)
     IN lastCall' = [seq |-> lastCall.seq + 1, op |-> "validatePipeline",
                     args |-> taskIds, ok |-> res.valid, out |-> res.graph]
  /\ UNCHANGED <<dbVars, now, ticks, workerJobs, callbacks, hbVars, plVars,
                 idempotencyCache, enqueueCall>>

NextD ==
  \/ \E req \in DRequests : RegisterD(req)
  \/ \E taskIds \in ValidateInputs : ValidateCall(taskIds)

SpecD == Init /\ [][NextD]_vars

\* the nodes of g reached from the nodes S along at most k edges
RECURSIVE Closure(_, _, _)
Closure(g, S, k) ==
  IF k = 0 THEN S
  ELSE Closure(g, S \cup {v \in DOMAIN g : \E u \in S : v \in SeqToSet(g[u])}, k - 1)

\* some node of g reaches itself along edges of g
HasDirectedCycle(g) ==
  \E t \in DOMAIN g :
    t \in Closure(g, SeqToSet(g[t]) \cap DOMAIN g, Cardinality(DOMAIN g))

\* the orders in which the rows of the loaded tasks may arrive
Orders(S) ==
  {o \in [1..Cardinality(S) -> S] : \A i, j \in 1..Cardinality(S) : i # j => o[i] # o[j]}

\* C30: when validatePipeline reports valid, every requested task id has a row,
\* every allowedNext of a loaded task names a loaded task, the loaded graph has
\* no directed cycle and some loaded task has no incoming edge; and detectCycles
\* finds a cycle exactly in the graphs that have one, in whatever order the
\* loaded rows arrive
C30_ValidOnlyIfDag ==
  lastCall.op = "validatePipeline" =>
    LET ids == SeqToSet(lastCall.args)
        g == lastCall.out
    IN /\ lastCall.ok =>
            /\ \A t \in ids : tasks[t].registered
            /\ DOMAIN g = ids
            /\ \A t \in ids : g[t] = tasks[t].allowedNext /\ SeqToSet(g[t]) \subseteq ids
            /\ ~HasDirectedCycle(g)
            /\ \E t \in ids : \A u \in ids : t \notin SeqToSet(g[u])
       /\ \A order \in Orders(DOMAIN g) :
            (DfsAll(g, order, [visited |-> {}, cycles |-> <<>>]).cycles # <<>>)
              <=> HasDirectedCycle(g)

\* the fork A -> {B, C} with B -> C, requested as A, B, C, is reported valid
C30_Witness ==
  /\ lastCall.op = "validatePipeline"
  /\ lastCall.ok
  /\ lastCall.args = <<"A", "B", "C">>
  /\ tasks["A"].allowedNext = <<"B", "C">>
  /\ tasks["B"].allowedNext = <<"C">>

(***************************************************************************)
(* SpecY: the registrations of SpecD, and detectCycles applied once to the  *)
(* graph loaded for a list of task ids                                      *)
(***************************************************************************)
\* detectCycles(graph) of the loaded graph, its result kept
DetectCyclesCall(taskIds) ==
  /\ lastCall.seq < 1
  /\ LET g == LoadTasks(SeqToSet(taskIds))
     IN lastCall' = [seq |-> lastCall.seq + 1, op |-> "detectCycles",
                     args |-> g, ok |-> DetectCycles(g) # <<>>, out |-> DetectCycles(g)]
  /\ UNCHANGED <<dbVars, now, ticks, workerJobs, callbacks, hbVars, plVars,
                 idempotencyCache, enqueueCall>>

NextY ==
  \/ \E req \in DRequests : RegisterD(req)
  \/ \E taskIds \in ValidateInputs : DetectCyclesCall(taskIds)

SpecY == Init /\ [][NextY]_vars

\* the directed cycles of g, each as the sequence of its distinct nodes from
\* every starting node
SimpleCycles(g) ==
  {c \in UNION {[1..n -> DOMAIN g] : n \in 1..Cardinality(DOMAIN g)} :
     /\ \A i, j \in DOMAIN c : i # j => c[i] # c[j]
     /\ \A i \in DOMAIN c : c[(i % Len(c)) + 1] \in SeqToSet(g[c[i]])}

\* b is a read from another starting node
IsRotation(a, b) ==
  /\ Len(a) = Len(b)
  /\ \E k \in 0..(Len(a) - 1) : \A i \in DOMAIN a : a[i] = b[((i - 1 + k) % Len(a)) + 1]

\* C31: every reported cycle is a closed path along edges of the graph, and
\* every directed cycle of the graph is reported exactly once
C31_EachCycleOnce ==
  lastCall.op = "detectCycles" =>
    LET g == lastCall.args
        cycles == lastCall.out
    IN /\ \A k \in DOMAIN cycles :
            LET c == cycles[k]
            IN /\ Len(c) >= 2
               /\ c[1] = c[Len(c)]
               /\ \A i \in 1..(Len(c) - 1) :
                    c[i] \in DOMAIN g /\ c[i + 1] \in SeqToSet(g[c[i]])
       /\ \A s \in SimpleCycles(g) :
            Cardinality({k \in DOMAIN cycles :
                           IsRotation(SubSeq(cycles[k], 1, Len(cycles[k]) - 1), s)}) = 1

(***************************************************************************)
(* PipelineGraph                                                           *)
(***************************************************************************)
\* buildReverseGraph: the predecessors of a task, as a Set
ReversePreds(g, t) == {u \in DOMAIN g : t \in SeqToSet(g[u])}

\* topologicalSort, per allowedNext entry: the in-degree counter goes down and
\* the task joins the next queue when the counter reaches 0
RECURSIVE SortNexts(_, _, _)
SortNexts(nexts, i, st) ==
  IF i > Len(nexts) THEN st
  ELSE LET nextId == nexts[i]
           newDegree == st.inDegree[nextId] - 1
       IN SortNexts(nexts, i + 1,
            [st EXCEPT !.inDegree[nextId] = newDegree,
                       !.nextQueue = IF newDegree = 0 /\ nextId \notin st.processed
                                     THEN Append(@, nextId) ELSE @])

\* topologicalSort, per task of the queue
RECURSIVE SortQueue(_, _, _, _)
SortQueue(g, queue, i, st) ==
  IF i > Len(queue) THEN st
  ELSE IF queue[i] \in st.processed THEN SortQueue(g, queue, i + 1, st)
  ELSE SortQueue(g, queue, i + 1,
         SortNexts(g[queue[i]], 1,
                   [st EXCEPT !.processed = @ \cup {queue[i]},
                              !.levelTasks = Append(@, queue[i])]))

\* topologicalSort: the type of a level
LevelType(g, level, levelTasks, nextQueue) ==
  LET hasJoin == \E x \in SeqToSet(levelTasks) : Cardinality(ReversePreds(g, x)) > 1
      hasEnd == \E x \in SeqToSet(levelTasks) : Len(g[x]) = 0
  IN IF level = 0 THEN "entry"
     ELSE IF hasEnd /\ Len(nextQueue) = 0 THEN "end"
     ELSE IF hasJoin THEN "join"
     ELSE "parallel"

\* topologicalSort: the predecessors a join level waits for; {} is undefined
WaitsFor(g, type, levelTasks) ==
  IF type = "join"
  THEN UNION {ReversePreds(g, x) :
                x \in {y \in SeqToSet(levelTasks) : Cardinality(ReversePreds(g, y)) > 1}}
  ELSE {}

\* topologicalSort: the while loop over the queues
RECURSIVE SortLevels(_, _, _, _, _)
SortLevels(g, queue, currentLevel, st, levels) ==
  IF Len(queue) = 0
  THEN [levels |-> levels, totalTasks |-> Cardinality(st.processed)]
  ELSE LET done == SortQueue(g, queue, 1,
                             [st EXCEPT !.levelTasks = <<>>, !.nextQueue = <<>>])
           type == LevelType(g, currentLevel, done.levelTasks, done.nextQueue)
       IN SortLevels(g, done.nextQueue, currentLevel + 1, done,
            IF Len(done.levelTasks) > 0
            THEN Append(levels, [level |-> currentLevel, tasks |-> done.levelTasks,
                                 type |-> type,
                                 waitsFor |-> WaitsFor(g, type, done.levelTasks)])
            ELSE levels)

\* topologicalSort(entryTasks)
TopologicalSort(g, entryTasks) ==
  SortLevels(g, SelectSeq(entryTasks, LAMBDA x : x \in DOMAIN g), 0,
             [inDegree |-> [x \in TaskIds |->
                              IF x \in DOMAIN g THEN Cardinality(ReversePreds(g, x)) ELSE 0],
              processed |-> {}, levelTasks |-> <<>>, nextQueue |-> <<>>],
             <<>>)

(***************************************************************************)
(* SpecL: the registrations of SpecD, and topologicalSort applied once to   *)
(* a graph that validatePipeline accepts, with its entry nodes in any order *)
(* of the loaded rows                                                       *)
(***************************************************************************)
TopologicalSortCall(taskIds) ==
  /\ lastCall.seq < 1
  /\ LET res == ValidatePipeline(taskIds)
     IN /\ res.valid
        /\ \E order \in Orders(DOMAIN res.graph) :
             LET entryTasks == SelectSeq(order, LAMBDA x : x \in EntryNodes(res.graph))
             IN lastCall' = [seq |-> lastCall.seq + 1, op |-> "topologicalSort",
                             args |-> [graph |-> res.graph, entryTasks |-> entryTasks],
                             ok |-> TRUE,
                             out |-> TopologicalSort(res.graph, entryTasks)]
  /\ UNCHANGED <<dbVars, now, ticks, workerJobs, callbacks, hbVars, plVars,
                 idempotencyCache, enqueueCall>>

NextL ==
  \/ \E req \in DRequests : RegisterD(req)
  \/ \E taskIds \in ValidateInputs : TopologicalSortCall(taskIds)

SpecL == Init /\ [][NextL]_vars

\* the levels of the plan that hold task x
LevelsOf(plan, x) ==
  {k \in DOMAIN plan.levels : x \in SeqToSet(plan.levels[k].tasks)}

\* C32: for an acyclic graph and its entry nodes, every task is in exactly one
\* level and once in it, in a level strictly after the level of each of its
\* predecessors, and totalTasks is the number of tasks
C32_LevelsFollowPredecessors ==
  lastCall.op = "topologicalSort" =>
    LET g == lastCall.args.graph
        plan == lastCall.out
    IN /\ plan.totalTasks = Cardinality(DOMAIN g)
       /\ \A x \in DOMAIN g :
            /\ Cardinality(LevelsOf(plan, x)) = 1
            /\ \A k \in LevelsOf(plan, x) :
                 /\ Cardinality({j \in DOMAIN plan.levels[k].tasks :
                                   plan.levels[k].tasks[j] = x}) = 1
                 /\ \A u \in ReversePreds(g, x) :
                      \A m \in LevelsOf(plan, u) :
                        plan.levels[m].level < plan.levels[k].level

\* C33: level 0 is entry; a later level with a task of two or more
\* predecessors is join and waits for the predecessors of those tasks; a later
\* level without such a task is end when a task of it has no successor and it
\* is the last level, and parallel otherwise, without waitsFor
C33_LevelTypes ==
  lastCall.op = "topologicalSort" =>
    LET g == lastCall.args.graph
        plan == lastCall.out
    IN \A k \in DOMAIN plan.levels :
         LET lv == plan.levels[k]
             joins == {x \in SeqToSet(lv.tasks) : Cardinality(ReversePreds(g, x)) > 1}
             hasEnd == \E x \in SeqToSet(lv.tasks) : Len(g[x]) = 0
         IN /\ lv.level = k - 1
            /\ lv.type = IF lv.level = 0 THEN "entry"
                         ELSE IF joins # {} THEN "join"
                         ELSE IF hasEnd /\ k = Len(plan.levels) THEN "end"
                         ELSE "parallel"
            /\ lv.waitsFor = IF lv.level > 0 /\ joins # {}
                             THEN UNION {ReversePreds(g, x) : x \in joins}
                             ELSE {}

(***************************************************************************)
(* SpecW: the tasks are registered as one of four graphs, pipeline p is    *)
(* stored with entry task A or with A and B, and dryRun(p) is called        *)
(***************************************************************************)
\* dryRun(pipelineId) of a stored pipeline, its result kept
DryRun(pid) ==
  LET validation == ValidatePipeline(pipelines[pid].entryTasks)
  IN IF ~validation.valid
     THEN [valid |-> FALSE, executionPlan |-> <<>>]
     ELSE [valid |-> TRUE,
           executionPlan |->
             TopologicalSort(validation.graph,
                             SetToSeq(validation.entryTasks)).levels]

DryRunCall(pid) ==
  /\ lastCall.seq < MaxCalls
  /\ pipelines[pid].exists
  /\ lastCall' = [seq |-> lastCall.seq + 1, op |-> "dryRun", args |-> <<pid>>,
                  ok |-> DryRun(pid).valid, out |-> DryRun(pid).executionPlan]
  /\ UNCHANGED <<dbVars, now, ticks, workerJobs, callbacks, hbVars, plVars,
                 idempotencyCache, enqueueCall>>

WRequests ==
  {Diamond, Fork, Graph(<<"B">>, <<"C">>, <<>>), Graph(<<>>, <<>>, <<>>)}

NextW ==
  \/ \E req \in WRequests : RegisterService(req)
  \/ \E entryTaskIds \in {<<"A">>, <<"A", "B">>} :
        UpsertPipeline("p", entryTaskIds, "fail-fast")
  \/ DryRunCall("p")

SpecW == Init /\ [][NextW]_vars

\* the structure stored by upsertPipeline is the graph of the current task rows
StructureCurrent(pid) ==
  /\ pipelines[pid].exists
  /\ \A x \in DOMAIN pipelines[pid].structure :
       tasks[x].registered /\ tasks[x].allowedNext = pipelines[pid].structure[x]

\* C34: dryRun of a stored pipeline whose structure is the graph of the current
\* task rows returns valid with a plan that holds every task of the structure
\* in exactly one level
C34_DryRunPlansStructure ==
  (lastCall.op = "dryRun" /\ StructureCurrent("p")) =>
    /\ lastCall.ok
    /\ \A x \in DOMAIN pipelines["p"].structure :
         Cardinality({k \in DOMAIN lastCall.out :
                        x \in SeqToSet(lastCall.out[k].tasks)}) = 1

(***************************************************************************)
(* Overlapping poll ticks, under SpecR: no worker answers, so workerJobs    *)
(* holds every attempt handed to the worker transport so far                *)
(***************************************************************************)
\* tick p hands the attempt of its claim i to the worker transport
Dispatches(p, i) ==
  /\ AtClaim(p, i, "send")
  /\ ticks'[p].pc = "dispatch"
  /\ i \in DOMAIN ticks'[p].claims
  /\ ticks'[p].claims[i].pc = "track"

\* C35: an attempt of a task run that a tick hands to the worker transport
\* has not been handed to it before, by this tick or by another
C35_DispatchedOnce ==
  [][\A p \in Pollers : \A i \in 1..MaxConcurrency :
       Dispatches(p, i)
         => [run |-> ticks[p].claims[i].run,
             attempt |-> ticks[p].claims[i].snap.attempt] \notin workerJobs]_vars

(***************************************************************************)
(* The timers of the heartbeat monitor, under SpecH                         *)
(***************************************************************************)
\* the setTimeout handles armed for run r: the one its tracker holds and the
\* ones no tracker in the map refers to
ArmedTimers(r) ==
  (IF trackers[r].handle # NoTime THEN 1 ELSE 0)
    + Cardinality({tm \in orphanTimers : tm.run = r})

\* C36: at most one timer is armed for a run at any time, and a timer that
\* starts the timeout handling of a tracked run is the one its tracker holds,
\* so that 2 x heartbeatIntervalMs have passed since the last startTracking or
\* recordHeartbeat for the run
C36_OneTimerPerRun ==
  /\ [](\A r \in RunIds : ArmedTimers(r) <= 1)
  /\ [][\A tm \in orphanTimers :
          (tm \notin orphanTimers' /\ tm.run \in timeoutCalls' /\ tm.run \notin timeoutCalls)
            => trackers[tm.run].handle = NoTime]_vars

(***************************************************************************)
(* SpecX: the four tasks registered with A leading to B, to C or nowhere,   *)
(* in any order and at any time; the pipeline with entry task A is stored,  *)
(* triggered once and run by a poller and its workers.                      *)
(***************************************************************************)
XRequests == {Graph(<<"B">>, <<>>, <<>>), Graph(<<"C">>, <<>>, <<>>),
              Graph(<<>>, <<>>, <<>>)}

NextX ==
  \/ \E req \in XRequests : RegisterService(req)
  \/ UpsertPipeline("p", <<"A">>, "fail-fast")
  \/ TriggerStep("p", NULL)
  \/ PollDispatches(1)
  \/ \E job \in JobIds : CbSuccess(job, NoSelection)
  \/ \E r \in AllRunIds : SuccessStep(r)

SpecX == Init /\ [][NextX]_vars

\* the task run a step has inserted
NewRow == taskRuns'[Len(taskRuns')]

\* C37: every task run created inside a pipeline run, by triggerPipeline or by
\* queueDownstreamTasks, is for a task of the run's structure_snapshot, and a
\* run queued downstream is for a successor, in the snapshot, of the task whose
\* completion enqueued it, also when tasks are re-registered meanwhile
C37_RunsFollowSnapshot ==
  [][/\ (TriggerEnqueue /\ Len(taskRuns') > Len(taskRuns))
          => NewRow.taskId \in DOMAIN pipelineRuns[NewRow.prun].snapshot
     /\ \A r \in AllRunIds :
          (QdEnqueue(r) /\ Len(taskRuns') > Len(taskRuns))
            => LET snapshot == pipelineRuns[NewRow.prun].snapshot
               IN /\ NewRow.taskId \in DOMAIN snapshot
                  /\ taskRuns[r].taskId \in DOMAIN snapshot
                  /\ NewRow.taskId \in SeqToSet(snapshot[taskRuns[r].taskId])]_vars

\* the DLQ entries of a run that were not retried (retried_at IS NULL)
OpenDlqEntries(r) == {k \in DOMAIN dlq : dlq[k].taskRunId = r /\ ~dlq[k].retried}

\* C38: in every reachable state each task run has at most one DLQ entry with
\* retried_at null, and a task run that has such an entry has status failed
C38_DlqEntryMeansFailed ==
  \A r \in RunIds :
    /\ Cardinality(OpenDlqEntries(r)) <= 1
    /\ OpenDlqEntries(r) # {} => taskRuns[r].status = "failed"

\* C39: every idempotency cache entry is self-consistent: after a cacheResult
\* call for a key the entry of the key carries the taskId and the codeVersion
\* passed to that call, the call that set its taskRunId, outputPath and
\* expiresAt, also when the call replaced an entry stored earlier for another
\* task or code version
C39_EntrySelfConsistent ==
  [][\A key \in Keys, t \in CachedTasks, r \in 1..MaxCachedRun,
        cv \in 1..MaxCachedRun, out \in 1..MaxCachedRun :
       CacheResultCall(key, t, r, cv, out)
         => \A e \in idempotencyCache' :
              e.key = key
                => /\ e.taskRunId = r /\ e.outputPath = out
                   /\ e.expiresAt = now + IdempotencyTtl
                   /\ e.taskId = t /\ e.codeVersion = cv]_vars

\* C40: the status of a pipeline run is final once it leaves running: a run that
\* is completed or failed never changes status again, for any order of
\* queueDownstreamTasks and handleTaskFailure calls on its task runs
C40_PipelineStatusFinal ==
  [][\A p \in DOMAIN pipelineRuns :
       pipelineRuns[p].status # "running"
         => pipelineRuns'[p].status = pipelineRuns[p].status]_vars

====
